---- MODULE Spec2Model ----
(***************************************************************************)
(* Model of the daily CrossFit.com scrape workflow.                        *)
(*                                                                         *)
(*   src/src/scraper/dotcom-scraper.ts  extractWodDetails and its helpers  *)
(*   src/src/ai/agent.ts                WodAnalysisAgent                   *)
(*                                                                         *)
(* JavaScript strings are TLA+ strings; Len, SubSeq and \o act on them.    *)
(* A value that may be null is a record [null, str].                       *)
(***************************************************************************)
EXTENDS Integers, Sequences, FiniteSets, TLC

\* ------------------------------------------------------------------------
\* JavaScript string primitives used by the source
\* ------------------------------------------------------------------------

NullStr == [null |-> TRUE, str |-> ""]

Str(s) == [null |-> FALSE, str |-> s]

\* JavaScript truthiness of a string-or-null value: null and '' are falsy.
Truthy(v) == ~v.null /\ v.str # ""

\* The characters matched by \s and removed by String.prototype.trim.
WhiteSpace == {" ", "\t", "\n", "\r", "\f"}

\* s.charAt(i - 1): the empty string outside the string
CharAt(s, i) == IF i >= 1 /\ i <= Len(s) THEN SubSeq(s, i, i) ELSE ""

MinOf(S) == CHOOSE x \in S : \A y \in S : x <= y

MaxOf(S) == CHOOSE x \in S : \A y \in S : x >= y

\* s.startsWith(sub, from - 1), 1-based
StartsWithAt(s, sub, from) ==
    /\ from >= 1
    /\ from + Len(sub) - 1 <= Len(s)
    /\ SubSeq(s, from, from + Len(sub) - 1) = sub

\* 1-based index of the first occurrence of sub at or after from; 0 if none
IndexOf(s, sub, from) ==
    LET hits == {i \in from..(Len(s) - Len(sub) + 1) : StartsWithAt(s, sub, i)}
    IN  IF hits = {} THEN 0 ELSE MinOf(hits)

\* 1-based index of the first character at or after from that lies in set
IndexOfAny(s, set, from) ==
    LET hits == {i \in from..Len(s) : CharAt(s, i) \in set}
    IN  IF hits = {} THEN 0 ELSE MinOf(hits)

LowerMap ==
    [c \in {"A","B","C","D","E","F","G","H","I","J","K","L","M",
            "N","O","P","Q","R","S","T","U","V","W","X","Y","Z"} |->
        CASE c = "A" -> "a" [] c = "B" -> "b" [] c = "C" -> "c" [] c = "D" -> "d"
          [] c = "E" -> "e" [] c = "F" -> "f" [] c = "G" -> "g" [] c = "H" -> "h"
          [] c = "I" -> "i" [] c = "J" -> "j" [] c = "K" -> "k" [] c = "L" -> "l"
          [] c = "M" -> "m" [] c = "N" -> "n" [] c = "O" -> "o" [] c = "P" -> "p"
          [] c = "Q" -> "q" [] c = "R" -> "r" [] c = "S" -> "s" [] c = "T" -> "t"
          [] c = "U" -> "u" [] c = "V" -> "v" [] c = "W" -> "w" [] c = "X" -> "x"
          [] c = "Y" -> "y" [] c = "Z" -> "z"]

RECURSIVE ToLowerCase(_)
ToLowerCase(s) ==
    IF Len(s) = 0 THEN ""
    ELSE IF Len(s) = 1 THEN (IF s \in DOMAIN LowerMap THEN LowerMap[s] ELSE s)
    ELSE LET h == Len(s) \div 2
         IN  ToLowerCase(SubSeq(s, 1, h)) \o ToLowerCase(SubSeq(s, h + 1, Len(s)))

\* String.prototype.trim
Trim(s) ==
    LET keep == {i \in 1..Len(s) : CharAt(s, i) \notin WhiteSpace}
    IN  IF keep = {} THEN "" ELSE SubSeq(s, MinOf(keep), MaxOf(keep))

\* s.replace(new RegExp(from, 'g'), to) for a literal pattern from
RECURSIVE ReplaceAll(_, _, _)
ReplaceAll(s, from, to) ==
    LET i == IndexOf(s, from, 1)
    IN  IF i = 0 THEN s
        ELSE SubSeq(s, 1, i - 1) \o to
             \o ReplaceAll(SubSeq(s, i + Len(from), Len(s)), from, to)

\* s.replace(/\n{3,}/g, '\n\n')
RECURSIVE CollapseNewlines(_)
CollapseNewlines(s) ==
    LET i == IndexOf(s, "\n\n\n", 1)
    IN  IF i = 0 THEN s
        ELSE LET after == {j \in i..Len(s) : CharAt(s, j) # "\n"}
                 stop  == IF after = {} THEN Len(s) + 1 ELSE MinOf(after)
             IN  SubSeq(s, 1, i - 1) \o "\n\n"
                 \o CollapseNewlines(SubSeq(s, stop, Len(s)))

\* ------------------------------------------------------------------------
\* The document tree cheerio builds (cheerio.load, .html(), selectors)
\* ------------------------------------------------------------------------

NoAttribs == [class |-> NullStr, id |-> NullStr, href |-> NullStr]

TextNode(d) ==
    [type |-> "text", tagName |-> "", attribs |-> NoAttribs, data |-> d,
     children |-> <<>>]

CommentNode(d) ==
    [type |-> "comment", tagName |-> "", attribs |-> NoAttribs, data |-> d,
     children |-> <<>>]

\* An element's type is 'script' or 'style' for elements of these names and
\* 'tag' for every other element.
Element(tag, attribs, children) ==
    [type |-> IF tag \in {"script", "style"} THEN tag ELSE "tag",
     tagName |-> tag, attribs |-> attribs, data |-> "", children |-> children]

\* What selectors take for an element
IsTag(node) == node.type \in {"tag", "script", "style"}

Letters == DOMAIN LowerMap \cup {LowerMap[c] : c \in DOMAIN LowerMap}

VoidElements == {"br", "hr", "img", "input", "meta", "link"}

\* Elements whose content the tokenizer reads as raw text
RawTextElements == {"script", "style"}

\* Tags the tree builder folds into the document's own html/head/body
WrapperElements == {"html", "head", "body"}

\* Start tags that close an open <p>
ClosesP == {"p", "div", "article", "section", "h1", "h2", "h3", "h4", "h5",
            "h6", "hr", "ul", "ol"}

DecodeEntities(s) ==
    ReplaceAll(ReplaceAll(ReplaceAll(s, "&lt;", "<"), "&gt;", ">"), "&amp;", "&")

EscapeText(s) ==
    ReplaceAll(ReplaceAll(ReplaceAll(s, "&", "&amp;"), "<", "&lt;"), ">", "&gt;")

\* Tag name of the text between '<' and '>' of a start tag
TagName(inner) ==
    LET e == IndexOfAny(inner, WhiteSpace \cup {"/"}, 1)
    IN  ToLowerCase(IF e = 0 THEN inner ELSE SubSeq(inner, 1, e - 1))

\* Value of the double-quoted attribute name in a start tag, or null
AttrOf(inner, name) ==
    LET open == " " \o name \o "=\""
        i    == IndexOf(inner, open, 1)
        from == i + Len(open)
        j    == IndexOf(inner, "\"", from)
    IN  IF i = 0 \/ j = 0 THEN NullStr ELSE Str(SubSeq(inner, from, j - 1))

AttribsOf(inner) ==
    [class |-> AttrOf(inner, "class"), id |-> AttrOf(inner, "id"),
     href |-> AttrOf(inner, "href")]

TextToken(d) == [k |-> "text", tag |-> "", attribs |-> NoAttribs, data |-> d]

CommentToken(d) == [k |-> "comment", tag |-> "", attribs |-> NoAttribs, data |-> d]

OpenToken(inner) ==
    [k |-> "open", tag |-> TagName(inner), attribs |-> AttribsOf(inner), data |-> ""]

CloseToken(inner) ==
    [k |-> "close", tag |-> ToLowerCase(Trim(inner)), attribs |-> NoAttribs, data |-> ""]

\* One step of the HTML tokenizer: s is the markup, ls its lower-cased
\* copy, i the 1-based position to read from. tokens are the tokens read
\* and next the position to go on from, past the end when the rest of the
\* markup gives no token.
NextToken(s, ls, i) ==
    LET end == Len(s) + 1
    IN  IF CharAt(s, i) # "<" THEN
            LET j == IndexOf(s, "<", i)
            IN  [tokens |-> <<TextToken(DecodeEntities(
                                 SubSeq(s, i, (IF j = 0 THEN end ELSE j) - 1)))>>,
                 next |-> IF j = 0 THEN end ELSE j]
        ELSE IF StartsWithAt(s, "<!--", i) THEN
            LET j == IndexOf(s, "-->", i + 4)
            IN  IF j = 0
                THEN [tokens |-> <<CommentToken(SubSeq(s, i + 4, Len(s)))>>, next |-> end]
                ELSE [tokens |-> <<CommentToken(SubSeq(s, i + 4, j - 1))>>, next |-> j + 3]
        ELSE IF StartsWithAt(s, "<!", i) \/ StartsWithAt(s, "<?", i) THEN
            \* bogus comment: everything up to the next '>'
            LET j == IndexOf(s, ">", i)
            IN  IF j = 0
                THEN [tokens |-> <<CommentToken(SubSeq(s, i + 1, Len(s)))>>, next |-> end]
                ELSE [tokens |-> <<CommentToken(SubSeq(s, i + 1, j - 1))>>, next |-> j + 1]
        ELSE IF StartsWithAt(s, "</", i) /\ CharAt(s, i + 2) \in Letters THEN
            LET j == IndexOf(s, ">", i)
            IN  IF j = 0 THEN [tokens |-> <<>>, next |-> end]
                ELSE [tokens |-> <<CloseToken(SubSeq(s, i + 2, j - 1))>>, next |-> j + 1]
        ELSE IF CharAt(s, i + 1) \in Letters THEN
            LET j == IndexOf(s, ">", i)
            IN  IF j = 0 THEN [tokens |-> <<>>, next |-> end]
                ELSE LET tok == OpenToken(SubSeq(s, i + 1, j - 1))
                     IN  IF tok.tag \in RawTextElements
                         THEN LET e   == IndexOf(ls, "</" \o tok.tag, j + 1)
                                  to  == IF e = 0 THEN end ELSE e
                                  raw == SubSeq(s, j + 1, to - 1)
                              IN  [tokens |-> <<tok>> \o (IF raw = "" THEN <<>>
                                                          ELSE <<TextToken(raw)>>),
                                   next |-> to]
                         ELSE [tokens |-> <<tok>>, next |-> j + 1]
        ELSE [tokens |-> <<TextToken("<")>>, next |-> i + 1]

\* At most count steps of the tokenizer from position i on. The steps are
\* split in halves, so that the evaluation nests only as deep as the
\* logarithm of their number.
RECURSIVE TokenizeSteps(_, _, _, _)
TokenizeSteps(s, ls, i, count) ==
    IF i > Len(s) THEN [tokens |-> <<>>, next |-> i]
    ELSE IF count = 1 THEN NextToken(s, ls, i)
    ELSE LET first == TokenizeSteps(s, ls, i, count \div 2)
             rest  == TokenizeSteps(s, ls, first.next, count - count \div 2)
         IN  [tokens |-> first.tokens \o rest.tokens, next |-> rest.next]

\* The HTML tokenizer: the tokens of s from position i on. Every step
\* reads at least one character, so Len(s) steps reach the end.
Tokenize(s, ls, i) ==
    IF i > Len(s) THEN <<>> ELSE TokenizeSteps(s, ls, i, Len(s)).tokens

\* Tree construction: stack holds the open elements, the root frame first.
RootFrame == [tagName |-> "#root", attribs |-> NoAttribs, children |-> <<>>]

AppendNode(stack, node) ==
    LET n    == Len(stack)
        kids == stack[n].children
        m    == Len(kids)
        new  == IF node.type = "text" /\ m > 0 /\ kids[m].type = "text"
                THEN [kids EXCEPT ![m].data = kids[m].data \o node.data]
                ELSE Append(kids, node)
    IN  [stack EXCEPT ![n].children = new]

CloseTop(stack) ==
    LET n   == Len(stack)
        top == stack[n]
    IN  AppendNode(SubSeq(stack, 1, n - 1),
                   Element(top.tagName, top.attribs, top.children))

RECURSIVE CloseUntil(_, _)
CloseUntil(stack, tag) ==
    IF Len(stack) <= 1 THEN stack
    ELSE IF stack[Len(stack)].tagName = tag THEN CloseTop(stack)
    ELSE CloseUntil(CloseTop(stack), tag)

RECURSIVE CloseAll(_)
CloseAll(stack) == IF Len(stack) <= 1 THEN stack ELSE CloseAll(CloseTop(stack))

\* What one token does to the stack of open elements
BuildToken(t, stack) ==
    CASE t.k = "text" -> AppendNode(stack, TextNode(t.data))
      [] t.k = "comment" -> AppendNode(stack, CommentNode(t.data))
      [] t.k = "open" ->
           IF t.tag \in WrapperElements THEN stack
           ELSE LET st == IF stack[Len(stack)].tagName = "p" /\ t.tag \in ClosesP
                          THEN CloseTop(stack) ELSE stack
                IN  IF t.tag \in VoidElements
                    THEN AppendNode(st, Element(t.tag, t.attribs, <<>>))
                    ELSE Append(st, [tagName |-> t.tag, attribs |-> t.attribs,
                                     children |-> <<>>])
      [] OTHER ->
           IF \E k \in 2..Len(stack) : stack[k].tagName = t.tag
           THEN CloseUntil(stack, t.tag)
           ELSE stack

\* The stack after the tokens from to upto, taken in halves as in
\* TokenizeSteps. The stack always holds the root frame; asking for it
\* makes the first half be worked out before the second is entered.
RECURSIVE BuildRange(_, _, _, _)
BuildRange(toks, from, upto, stack) ==
    IF from > upto \/ stack = <<>> THEN stack
    ELSE IF from = upto THEN BuildToken(toks[from], stack)
    ELSE LET mid == (from + upto) \div 2
         IN  BuildRange(toks, mid + 1, upto, BuildRange(toks, from, mid, stack))

Build(toks, i, stack) == CloseAll(BuildRange(toks, i, Len(toks), stack))[1].children

\* The sequence of top-level nodes the parser builds from markup
ParseHtml(html) == Build(Tokenize(html, ToLowerCase(html), 1), 1, <<RootFrame>>)

SerializeAttribs(a) ==
    (IF a.class.null THEN "" ELSE " class=\"" \o a.class.str \o "\"")
    \o (IF a.id.null THEN "" ELSE " id=\"" \o a.id.str \o "\"")
    \o (IF a.href.null THEN "" ELSE " href=\"" \o a.href.str \o "\"")

\* Serialization of a node list, as .html() gives the inner HTML
RECURSIVE SerializeNodes(_, _)
SerializeNodes(nodes, raw) ==
    IF nodes = <<>> THEN ""
    ELSE LET n == Head(nodes)
             one == CASE n.type = "text" -> IF raw THEN n.data ELSE EscapeText(n.data)
                      [] n.type = "comment" -> "<!--" \o n.data \o "-->"
                      [] OTHER ->
                           "<" \o n.tagName \o SerializeAttribs(n.attribs) \o ">"
                           \o (IF n.tagName \in VoidElements THEN ""
                               ELSE SerializeNodes(n.children,
                                                   n.tagName \in RawTextElements)
                                    \o "</" \o n.tagName \o ">")
         IN  one \o SerializeNodes(Tail(nodes), raw)

\* Paths (child indexes from the top) of all nodes below nodes, in document order
RECURSIVE PathsFrom(_, _)
PathsFrom(nodes, prefix) ==
    LET RECURSIVE Walk(_)
        Walk(i) ==
            IF i > Len(nodes) THEN <<>>
            ELSE <<Append(prefix, i)>>
                 \o PathsFrom(nodes[i].children, Append(prefix, i))
                 \o Walk(i + 1)
    IN  Walk(1)

AllPaths(dom) == PathsFrom(dom, <<>>)

RECURSIVE NodeAt(_, _)
NodeAt(nodes, path) ==
    IF Len(path) = 1 THEN nodes[path[1]]
    ELSE NodeAt(nodes[path[1]].children, Tail(path))

ChildrenAt(dom, path) == IF path = <<>> THEN dom ELSE NodeAt(dom, path).children

IsProperPrefix(p, q) == Len(p) < Len(q) /\ SubSeq(q, 1, Len(p)) = p

\* cheerio .text(): the text of all text nodes below, in document order
RECURSIVE TextOfNodes(_)
TextOfNodes(nodes) ==
    IF nodes = <<>> THEN ""
    ELSE LET n == Head(nodes)
         IN  (CASE n.type = "text" -> n.data
                [] n.type = "comment" -> ""
                [] OTHER -> TextOfNodes(n.children))
             \o TextOfNodes(Tail(nodes))

\* The whitespace-separated words of a class attribute
RECURSIVE SplitWs(_)
SplitWs(s) ==
    LET t == Trim(s)
        e == IndexOfAny(t, WhiteSpace, 1)
    IN  IF t = "" THEN <<>>
        ELSE IF e = 0 THEN <<t>>
        ELSE <<SubSeq(t, 1, e - 1)>> \o SplitWs(SubSeq(t, e, Len(t)))

HasClass(node, word) ==
    /\ ~node.attribs.class.null
    /\ \E k \in DOMAIN SplitWs(node.attribs.class.str) :
            SplitWs(node.attribs.class.str)[k] = word

HasId(node, id) == ~node.attribs.id.null /\ node.attribs.id.str = id

\* ------------------------------------------------------------------------
\* src/src/scraper/dotcom-scraper.ts
\* ------------------------------------------------------------------------

WordChars == Letters \cup {"0","1","2","3","4","5","6","7","8","9","_"}

\* s.replace(/<open ... close/g, ''): every span from an occurrence of open
\* (followed by a word boundary when boundary is set) to the first close
\* after it is removed; the match is case-insensitive.
RECURSIVE RemoveSpans(_, _, _, _)
RemoveSpans(s, open, close, boundary) ==
    LET ls     == ToLowerCase(s)
        starts == {i \in 1..Len(s) :
                      /\ StartsWithAt(ls, open, i)
                      /\ boundary => CharAt(ls, i + Len(open)) \notin WordChars}
        i      == IF starts = {} THEN 0 ELSE MinOf(starts)
        j      == IF i = 0 THEN 0 ELSE IndexOf(ls, close, i + Len(open))
    IN  IF i = 0 \/ j = 0 THEN s
        ELSE SubSeq(s, 1, i - 1)
             \o RemoveSpans(SubSeq(s, j + Len(close), Len(s)), open, close, boundary)

\* extractWodDetails, lines 101-109: the three replace calls
PreClean(htmlContent) ==
    RemoveSpans(
        RemoveSpans(
            RemoveSpans(htmlContent, "<script", "</script>", TRUE),
            "<style", "</style>", TRUE),
        "<!--", "-->", FALSE)

\* Mutant: a paragraph ends with one newline
ConvertElementSingleBreak(tagName, content, href) ==
    CASE tagName = "p" -> content \o "\n"
      [] tagName = "br" -> "\n"
      [] tagName \in {"strong", "b"} -> "**" \o content \o "**"
      [] tagName \in {"em", "i"} -> "*" \o content \o "*"
      [] tagName = "a" -> "[" \o content \o "](" \o href \o ")"
      [] OTHER -> content

\* Mutant: the case labels 'strong' and 'em' are missing
ConvertElementShortTagsOnly(tagName, content, href) ==
    CASE tagName = "p" -> content \o "\n\n"
      [] tagName = "br" -> "\n"
      [] tagName = "b" -> "**" \o content \o "**"
      [] tagName = "i" -> "*" \o content \o "*"
      [] tagName = "a" -> "[" \o content \o "](" \o href \o ")"
      [] OTHER -> content

\* Mutant: the default case adds nothing
ConvertElementHandledTagsOnly(tagName, content, href) ==
    CASE tagName = "p" -> content \o "\n\n"
      [] tagName = "br" -> "\n"
      [] tagName \in {"strong", "b"} -> "**" \o content \o "**"
      [] tagName \in {"em", "i"} -> "*" \o content \o "*"
      [] tagName = "a" -> "[" \o content \o "](" \o href \o ")"
      [] OTHER -> ""

\* The switch of convertCheerioToMarkdown: what an element of tag tagName
\* whose converted children are content adds to the markdown.
ConvertElement(tagName, content, href) ==
    CASE tagName = "p" -> content \o "\n\n"
      [] tagName = "br" -> "\n"
      [] tagName \in {"strong", "b"} -> "**" \o content \o "**"
      [] tagName \in {"em", "i"} -> "*" \o content \o "*"
      [] tagName = "a" -> "[" \o content \o "](" \o href \o ")"
      [] OTHER -> content

RECURSIVE ConvertCheerioToMarkdown(_)
ConvertCheerioToMarkdown(elements) ==
    LET RECURSIVE Each(_, _)
        Each(i, markdown) ==
            IF i > Len(elements) THEN markdown
            ELSE LET node == elements[i]
                 IN  IF node.type = "text" THEN Each(i + 1, markdown \o node.data)
                     ELSE IF node.type # "tag" THEN Each(i + 1, markdown)
                     ELSE Each(i + 1,
                               markdown
                               \o ConvertElement(
                                      node.tagName,
                                      IF node.tagName = "br" THEN ""
                                      ELSE ConvertCheerioToMarkdown(node.children),
                                      IF Truthy(node.attribs.href)
                                      THEN node.attribs.href.str ELSE ""))
    IN  Each(1, "")

\* Mutant: the result is not trimmed
PostProcessUntrimmed(md) == CollapseNewlines(md)

\* md.replace(/\n{3,}/g, '\n\n').trim()
PostProcess(md) == Trim(CollapseNewlines(md))

HtmlSnippetToMarkdown(htmlSnippet) ==
    IF ~Truthy(htmlSnippet) THEN ""
    ELSE PostProcess(ConvertCheerioToMarkdown(ParseHtml(htmlSnippet.str)))

ClassPrefix == "_workout-of-the-day-content"

\* Mutant: div[class*="_workout-of-the-day-content"]
MatchesPrimarySelectorAnywhere(node) ==
    /\ IsTag(node)
    /\ node.tagName = "div"
    /\ ~node.attribs.class.null
    /\ IndexOf(node.attribs.class.str, ClassPrefix, 1) > 0

\* div[class^="_workout-of-the-day-content"]
MatchesPrimarySelector(node) ==
    /\ IsTag(node)
    /\ node.tagName = "div"
    /\ ~node.attribs.class.null
    /\ StartsWithAt(node.attribs.class.str, ClassPrefix, 1)

\* $('div[class^="_workout-of-the-day-content"]'): the matching elements, in
\* document order
SelectPrimaryDivs(dom) ==
    SelectSeq(AllPaths(dom), LAMBDA p : MatchesPrimarySelector(NodeAt(dom, p)))

\* workoutOfTheDayContentDiv.find("article"): the article descendants of the
\* selected divs, in document order
FindArticles(dom, divs) ==
    SelectSeq(AllPaths(dom),
              LAMBDA p : /\ IsTag(NodeAt(dom, p))
                         /\ NodeAt(dom, p).tagName = "article"
                         /\ \E k \in DOMAIN divs : IsProperPrefix(divs[k], p))

\* .html() of a selection: the inner HTML of its first element, null if empty
InnerHtml(dom, selection) ==
    IF selection = <<>> THEN NullStr
    ELSE Str(SerializeNodes(NodeAt(dom, selection[1]).children, FALSE))

MinMarkdownLength == 20

\* Mutant: potentialWodText.length >= 20
LongEnoughInclusive(potentialWodText) == Len(potentialWodText) >= MinMarkdownLength

\* potentialWodText.length > 20
LongEnough(potentialWodText) == Len(potentialWodText) > MinMarkdownLength

\* Lines 124-157: the text the primary strategy leaves in wodTextContent,
\* null at line 124 and assigned only at line 144
PrimaryStrategy(dom) ==
    LET workoutOfTheDayContentDiv == SelectPrimaryDivs(dom)
        articleElement == FindArticles(dom, workoutOfTheDayContentDiv)
        articleHtml    == InnerHtml(dom, articleElement)
        potentialWodText == HtmlSnippetToMarkdown(articleHtml)
    IN  IF /\ Len(workoutOfTheDayContentDiv) > 0
           /\ Len(articleElement) > 0
           /\ Truthy(articleHtml)
           /\ LongEnough(potentialWodText)
        THEN Str(potentialWodText)
        ELSE NullStr

\* $("h1, h2, h3")
IsHeading(node) == IsTag(node) /\ node.tagName \in {"h1", "h2", "h3"}

\* The filter of line 162-165
IsWodTitleHeading(node) ==
    /\ IsHeading(node)
    /\ ToLowerCase(Trim(TextOfNodes(node.children))) = "workout of the day"

\* $("h1, h2, h3").filter(...): the matching headings, in document order
SelectWodTitleHeadings(dom) ==
    SelectSeq(AllPaths(dom), LAMBDA p : IsWodTitleHeading(NodeAt(dom, p)))

\* Mutant: the selector without hr
MatchesStopSelectorWithoutHr(node) ==
    /\ IsTag(node)
    /\ \/ node.tagName \in {"h1", "h2", "h3"}
       \/ node.tagName = "div" /\ HasId(node, "comments")
       \/ node.tagName = "section" /\ HasClass(node, "comments")
       \/ node.tagName = "div" /\ HasClass(node, "fyre")
       \/ node.tagName = "div" /\ HasClass(node, "comments-area")
       \/ HasId(node, "comments")
       \/ HasClass(node, "comments-section")
       \/ HasClass(node, "post-comments")

\* The selector given to nextUntil at line 169
MatchesStopSelector(node) ==
    /\ IsTag(node)
    /\ \/ node.tagName \in {"h1", "h2", "h3", "hr"}
       \/ node.tagName = "div" /\ HasId(node, "comments")
       \/ node.tagName = "section" /\ HasClass(node, "comments")
       \/ node.tagName = "div" /\ HasClass(node, "fyre")
       \/ node.tagName = "div" /\ HasClass(node, "comments-area")
       \/ HasId(node, "comments")
       \/ HasClass(node, "comments-section")
       \/ HasClass(node, "post-comments")

\* heading.nextUntil(selector): the element siblings after the heading, up
\* to the first that matches the selector
NextUntil(dom, heading) ==
    LET n        == Len(heading)
        siblings == ChildrenAt(dom, SubSeq(heading, 1, n - 1))
        stops    == {k \in (heading[n] + 1)..Len(siblings) :
                        MatchesStopSelector(siblings[k])}
        last     == IF stops = {} THEN Len(siblings) ELSE MinOf(stops) - 1
        after    == SubSeq(siblings, heading[n] + 1, last)
    IN  SelectSeq(after, LAMBDA node : IsTag(node))

\* Mutant: the fallback takes its text whatever its length
FallbackStrategyAnyLength(dom, wodTextContent) ==
    LET headings == SelectWodTitleHeadings(dom)
        contentElements == IF headings = <<>> THEN <<>>
                           ELSE NextUntil(dom, headings[1])
        PTagHtml == Str(SerializeNodes(contentElements, FALSE))
    IN  IF /\ Len(headings) > 0
           /\ Len(contentElements) > 0
           /\ Truthy(PTagHtml) /\ Trim(PTagHtml.str) # ""
        THEN Str(HtmlSnippetToMarkdown(PTagHtml))
        ELSE wodTextContent

\* Lines 161-198: the text the fallback strategy leaves in wodTextContent,
\* which it assigns only at line 185
FallbackStrategy(dom, wodTextContent) ==
    LET headings == SelectWodTitleHeadings(dom)
        contentElements == IF headings = <<>> THEN <<>>
                           ELSE NextUntil(dom, headings[1])
        PTagHtml == Str(SerializeNodes(contentElements, FALSE))
        potentialWodText == HtmlSnippetToMarkdown(PTagHtml)
    IN  IF /\ Len(headings) > 0
           /\ Len(contentElements) > 0
           /\ Truthy(PTagHtml) /\ Trim(PTagHtml.str) # ""
           /\ LongEnough(potentialWodText)
        THEN Str(potentialWodText)
        ELSE wodTextContent

\* Mutant: the fallback runs whatever the primary strategy found
FallbackAlways(wodTextContent) == TRUE

\* if (!wodTextContent) at line 160
FallbackNeeded(wodTextContent) == ~Truthy(wodTextContent)

\* ------------------------------------------------------------------------
\* What the strategies do to the document
\* ------------------------------------------------------------------------

\* An element a selection holds: one of the document, at a path, or one
\* that is in no document
InDocument(path) == [inDocument |-> TRUE, path |-> path]
Detached == [inDocument |-> FALSE, path |-> <<>>]

\* $('<div></div>') at line 57: a new element, in no document
CreateElement == Detached

\* Mutant: $(el) is appended itself
NotCloned(element) == element

\* $(el).clone() at line 175: a copy, in no document
Clone(element) == Detached

RECURSIVE SetChildren(_, _, _)
SetChildren(nodes, path, children) ==
    IF Len(path) = 1 THEN [nodes EXCEPT ![path[1]].children = children]
    ELSE [nodes EXCEPT ![path[1]].children = SetChildren(@, Tail(path), children)]

RECURSIVE RemoveChildren(_, _, _)
RemoveChildren(nodes, parent, indices) ==
    IF parent = <<>>
    THEN LET kept == SelectSeq([k \in DOMAIN nodes |-> k],
                               LAMBDA k : k \notin indices)
         IN  [i \in DOMAIN kept |-> nodes[kept[i]]]
    ELSE [nodes EXCEPT ![parent[1]].children =
                           RemoveChildren(@, Tail(parent), indices)]

\* element.html(htmlSnippet): the children of the element are replaced by
\* the parsed snippet; the document changes when the element is part of it
SetHtml(dom, element, htmlSnippet) ==
    IF element.inDocument
    THEN SetChildren(dom, element.path, ParseHtml(htmlSnippet))
    ELSE dom

\* contentWrapper.append(elements): an element that has a parent is taken
\* away from it
AppendToWrapper(dom, parent, elements) ==
    RemoveChildren(dom, parent, {e.path[Len(e.path)] : e \in {x \in elements : x.inDocument}})

\* Lines 55-58: the document after htmlSnippetToMarkdown
DocumentAfterSnippet(dom, htmlSnippet) ==
    IF ~Truthy(htmlSnippet) THEN dom
    ELSE SetHtml(dom, CreateElement, htmlSnippet.str)

\* Lines 131-157: the document after the primary strategy
DocumentAfterPrimary(dom) ==
    LET workoutOfTheDayContentDiv == SelectPrimaryDivs(dom)
        articleElement == FindArticles(dom, workoutOfTheDayContentDiv)
        articleHtml    == InnerHtml(dom, articleElement)
    IN  IF Len(articleElement) > 0 /\ Truthy(articleHtml)
        THEN DocumentAfterSnippet(dom, articleHtml)
        ELSE dom

\* The paths of the elements nextUntil selects (line 169)
NextUntilPaths(dom, heading) ==
    LET n        == Len(heading)
        parent   == SubSeq(heading, 1, n - 1)
        siblings == ChildrenAt(dom, parent)
        stops    == {k \in (heading[n] + 1)..Len(siblings) :
                        MatchesStopSelector(siblings[k])}
        last     == IF stops = {} THEN Len(siblings) ELSE MinOf(stops) - 1
    IN  {Append(parent, k) : k \in {j \in (heading[n] + 1)..last : IsTag(siblings[j])}}

\* Lines 161-198: the document after the fallback strategy
DocumentAfterFallback(dom) ==
    LET headings == SelectWodTitleHeadings(dom)
        paths == IF headings = <<>> THEN {} ELSE NextUntilPaths(dom, headings[1])
        parent == SubSeq(headings[1], 1, Len(headings[1]) - 1)
        appended == IF paths = {} THEN dom
                    ELSE AppendToWrapper(dom, parent,
                                         {Clone(InDocument(p)) : p \in paths})
        PTagHtml == Str(SerializeNodes(NextUntil(dom, headings[1]), FALSE))
    IN  IF paths # {} /\ Truthy(PTagHtml) /\ Trim(PTagHtml.str) # ""
        THEN DocumentAfterSnippet(appended, PTagHtml)
        ELSE appended

\* Mutant: /rest\sday/ without the i flag
RegExpTestRestDayCaseSensitive(re, s) ==
    LET start == IF re.global THEN re.lastIndex ELSE 0
        hits  == {i \in (start + 1)..Len(s) :
                     /\ StartsWithAt(s, "rest", i)
                     /\ CharAt(s, i + 4) \in WhiteSpace
                     /\ StartsWithAt(s, "day", i + 5)}
    IN  [matched   |-> hits # {},
         lastIndex |-> IF ~re.global THEN re.lastIndex
                       ELSE IF hits = {} THEN 0 ELSE MinOf(hits) + 7]

\* RegExp.prototype.test for /rest\sday/ with the i flag: re is the RegExp
\* object, [global, lastIndex]. A global RegExp starts at lastIndex and
\* moves it; any other starts at 0 and leaves it.
RegExpTestRestDay(re, s) ==
    LET ls    == ToLowerCase(s)
        start == IF re.global THEN re.lastIndex ELSE 0
        hits  == {i \in (start + 1)..Len(s) :
                     /\ StartsWithAt(ls, "rest", i)
                     /\ CharAt(ls, i + 4) \in WhiteSpace
                     /\ StartsWithAt(ls, "day", i + 5)}
    IN  [matched   |-> hits # {},
         lastIndex |-> IF ~re.global THEN re.lastIndex
                       ELSE IF hits = {} THEN 0 ELSE MinOf(hits) + 7]

\* Mutant: one module-level /rest\sday/gi shared by all calls
RestDayRegExpShared(prev) == [global |-> TRUE, lastIndex |-> prev]

\* The literal /rest\sday/i of line 201 is a new RegExp object each time the
\* line runs; prev is the lastIndex the previous object was left with.
RestDayRegExp(prev) == [global |-> FALSE, lastIndex |-> 0]

\* Mutant: a page without text counts as a rest day
RestDayCheckDefaultTrue(wodTextContent, prev) ==
    IF Truthy(wodTextContent)
    THEN LET t == RegExpTestRestDay(RestDayRegExp(prev), wodTextContent.str)
         IN  [threw |-> FALSE, isRestDay |-> t.matched, lastIndex |-> t.lastIndex]
    ELSE [threw |-> FALSE, isRestDay |-> TRUE, lastIndex |-> prev]

\* Mutant: wodTextContent.match(/rest\sday/i) !== null, without the guard
RestDayCheckUnguarded(wodTextContent, prev) ==
    IF wodTextContent.null
    THEN [threw |-> TRUE, isRestDay |-> FALSE, lastIndex |-> prev]
    ELSE LET t == RegExpTestRestDay(RestDayRegExp(prev), wodTextContent.str)
         IN  [threw |-> FALSE, isRestDay |-> t.matched, lastIndex |-> t.lastIndex]

\* Line 201: threw tells whether evaluating the line raised
RestDayCheck(wodTextContent, prev) ==
    IF Truthy(wodTextContent)
    THEN LET t == RegExpTestRestDay(RestDayRegExp(prev), wodTextContent.str)
         IN  [threw |-> FALSE, isRestDay |-> t.matched, lastIndex |-> t.lastIndex]
    ELSE [threw |-> FALSE, isRestDay |-> FALSE, lastIndex |-> prev]

\* Lines 212-215
WodDetails(wodTextContent, isRestDay) ==
    [wodText   |-> IF Truthy(wodTextContent) THEN wodTextContent ELSE NullStr,
     isRestDay |-> isRestDay]

\* ------------------------------------------------------------------------
\* The HTML documents extractWodDetails is called with
\* ------------------------------------------------------------------------

\* Greatest number of <div> wrappers put around a content fragment
MaxWrapDepth == 1

RECURSIVE Wrap(_, _)
Wrap(html, depth) ==
    IF depth = 0 THEN html ELSE "<div>" \o Wrap(html, depth - 1) \o "</div>"

EndToEndHtml ==
    "<html><body><div class=\"_workout-of-the-day-content-x7f\"><article>"
    \o "<p>AMRAP 20:</p><p>10 Burpees</p></article></div></body></html>"

TagFidelityHtml == "<p>Hello <strong>world</strong><br>Next line</p>"

\* Content fragments: what a page carries inside the article or after the
\* heading. Their converted lengths lie on both sides of the threshold.
ContentFragments ==
    { "<p>AMRAP 20:</p><p>10 Burpees</p>",
      "<p>AMRAP 20:</p><p>9 Burpees</p>",
      "<p>Rest Day. Recover and hydrate.</p>",
      "<p><strong>REST DAY</strong></p><p>Recover &amp; hydrate.</p>",
      "<p>Take a rest  day and recover.</p>",
      "<p>Active rest<br>day of recovery.</p>",
      "<p>Rest Day</p>",
      TagFidelityHtml,
      "<span>For <em>time</em>:</span> <b>21-15-9</b> <i>reps</i><p></p><br><br>"
          \o "<p><a href=\"/fran\">Fran</a> and <a>more</a></p><?x?>",
      "<p>For time:</p><script>var s = '<b>rest day</b>';</script>"
          \o "<!-- rest day --><p>100 Burpees</p>",
      "<p>For time:</p><script>var reps = 100;</script ><p>100 Burpees</p>"
          \o "<style>p { margin: 0 }</style >",
      " \n ",
      "" }

PrimaryBlocks ==
    { "",
      "<div class=\"_workout-of-the-day-content-x7f\"><p>Thrusters and pull-ups, 21-15-9</p></div>",
      "<div class=\"wod _workout-of-the-day-content\"><article><p>Thrusters and pull-ups, 21-15-9</p></article></div>",
      "<section class=\"_workout-of-the-day-content\"><article><p>Thrusters and pull-ups, 21-15-9</p></article></section>",
      "<div class=\"_workout-of-the-day-content-a\"><p>Intro</p></div>"
          \o "<div class=\"_workout-of-the-day-content-b\"><article><p>Thrusters and pull-ups, 21-15-9</p></article></div>" }
    \cup
    { "<div class=\"_workout-of-the-day-content-x7f\"><article>" \o Wrap(f, w)
          \o "</article></div>" : f \in ContentFragments, w \in 0..MaxWrapDepth }

HeadingLines ==
    { "<h2>Workout of the Day</h2>",
      "<h1> WORKOUT OF THE DAY\n</h1>",
      "<h3><a href=\"/wod\">Workout</a> of the <em>day</em></h3>" }

MissedHeadingLines ==
    { "<h4>Workout of the Day</h4>",
      "<h2>Workout of the Day 250101</h2>",
      "<p>Workout of the Day</p>" }

StopLines ==
    { "<h3>Comments</h3>",
      "<hr>",
      "<div id=\"comments\"></div>",
      "<section class=\"comments\"></section>",
      "<div class=\"widget fyre\"></div>",
      "<div class=\"comments-area\"></div>",
      "<ul class=\"post-comments\"></ul>",
      "<aside class=\"comments-section\"></aside>",
      "<div class=\"comments\"></div>" }

AfterStop == "<p>Great workout, I loved every minute of it!</p>"

\* Fragments tried after the heading under every wrapping depth
FallbackFragments ==
    { "<p>AMRAP 20:</p><p>10 Burpees</p>",
      "<p>AMRAP 20:</p><p>9 Burpees</p>",
      "<p>Rest Day. Recover and hydrate.</p>",
      "<p>Rest Day</p>",
      "" }

FallbackBlocks ==
    { "" }
    \cup { h \o "<p>Deadlift 5-5-5-5-5, rest as needed</p>" : h \in MissedHeadingLines }
    \cup { h \o "<p>Deadlift 5-5-5-5-5, rest as needed</p>" : h \in HeadingLines }
    \cup { "<h2>Workout of the Day</h2>" \o "<p>Deadlift 5-5-5</p>" \o st \o AfterStop :
              st \in StopLines }
    \cup { "<h2>Workout of the Day</h2>Bare text after the heading, not in an element"
              \o "<p>Deadlift 5-5-5</p>" }
    \cup { "<h2>Workout of the Day</h2><p>Deadlift 5-5-5-5-5, rest as needed</p>"
              \o "<h2>Workout of the day</h2><p>Back squat 3-3-3-3-3, rest as needed</p>" }
    \cup { "<h2>Workout of the Day</h2>" \o Wrap(f, w) \o "<h3>Comments</h3>" \o AfterStop :
              f \in FallbackFragments, w \in 0..MaxWrapDepth }

\* The blocks every block of the other kind is combined with
CorePrimaryBlocks ==
    { "",
      "<div class=\"_workout-of-the-day-content-x7f\"><p>Thrusters and pull-ups, 21-15-9</p></div>",
      "<div class=\"_workout-of-the-day-content-x7f\"><article><p>AMRAP 20:</p><p>10 Burpees</p></article></div>",
      "<div class=\"_workout-of-the-day-content-x7f\"><article><p>AMRAP 20:</p><p>9 Burpees</p></article></div>" }

CoreFallbackBlocks ==
    { "",
      "<h2>Workout of the Day</h2><p>Deadlift 5-5-5-5-5, rest as needed</p>",
      "<h2>Workout of the Day</h2><p>Deadlift 5-5-5</p><hr>" \o AfterStop }

HtmlInputs ==
    { EndToEndHtml, "", "not html at all, just a line of text < 1",
      "<div class=\"_workout-of-the-day-content-x7f\"><article><p>Unclosed elements, cut off mid-tag <",
      "<script>var a = 1;",
      "<div class=\"_workout-of-the-day-content-x7f\"><article><!-<script></script>- "
          \o "<p>Thrusters and pull-ups, 21-15-9</p> --></article></div>",
      "<h2>Workout of the Day</h2><sty<script></script>le><p>Deadlift 5-5-5, "
          \o "then rest</p></style>" }
    \cup { "<html><body>" \o p \o f \o "</body></html>" :
              p \in PrimaryBlocks, f \in CoreFallbackBlocks }
    \cup { "<html><body>" \o p \o f \o "</body></html>" :
              p \in CorePrimaryBlocks, f \in FallbackBlocks }

\* ------------------------------------------------------------------------
\* src/ai/agent.ts: JSON values and WorkoutSchema
\* ------------------------------------------------------------------------

\* One property of a parsed JSON object: t is the JavaScript type of its
\* value ("absent" when the key is missing), s the value of a string,
\* n the value of a number
Absent == [t |-> "absent", s |-> "", n |-> 0]
JNull == [t |-> "null", s |-> "", n |-> 0]
JStr(s) == [t |-> "string", s |-> s, n |-> 0]
JNum(n) == [t |-> "number", s |-> "", n |-> n]

\* The keys WorkoutSchema names; z.object drops every other key
WorkoutKeys ==
    {"id", "name", "description", "scope", "scheme", "repsPerRound",
     "roundsToScore", "tiebreakScheme", "secondaryScheme"}

NoFields == [k \in WorkoutKeys |-> Absent]

JObject(fields) == [kind |-> "object", fields |-> fields]

\* null, a number, a string, an array: anything z.object rejects
JNotObject == [kind |-> "other", fields |-> NoFields]

ScopeValues == {"private", "public"}

SchemeValues ==
    {"time", "time-with-cap", "pass-fail", "rounds-reps", "reps", "emom",
     "load", "calories", "meters", "feet", "points"}

TiebreakSchemeValues == {"time", "reps"}

SecondarySchemeValues ==
    {"time", "pass-fail", "rounds-reps", "reps", "emom", "load",
     "calories", "meters", "feet", "points"}

ZString(v) == v.t = "string"
ZNumber(v) == v.t = "number"
ZEnum(v, values) == v.t = "string" /\ v.s \in values

\* .nullable().optional(): null and undefined pass as they are
ZNullableOptional(v, inner) == v.t \in {"absent", "null"} \/ inner

\* .default(d): undefined passes and becomes d
ZDefault(v, inner) == v.t = "absent" \/ inner
ZDefaultValue(v, d) == IF v.t = "absent" THEN d ELSE v

DefaultRoundsToScore == 1

\* WorkoutSchema.parse (lines 7-40, called on line 132)
WorkoutSchemaParse(data) ==
    LET f == data.fields
        ok == /\ data.kind = "object"
              /\ ZString(f["id"])
              /\ ZString(f["name"])
              /\ ZString(f["description"])
              /\ ZDefault(f["scope"], ZEnum(f["scope"], ScopeValues))
              /\ ZEnum(f["scheme"], SchemeValues)
              /\ ZNullableOptional(f["repsPerRound"], ZNumber(f["repsPerRound"]))
              /\ ZDefault(f["roundsToScore"], ZNumber(f["roundsToScore"]))
              /\ ZNullableOptional(f["tiebreakScheme"],
                                   ZEnum(f["tiebreakScheme"], TiebreakSchemeValues))
              /\ ZNullableOptional(f["secondaryScheme"],
                                   ZEnum(f["secondaryScheme"], SecondarySchemeValues))
    IN  [threw |-> ~ok,
         value |-> IF ok
                   THEN [f EXCEPT
                           !["scope"] = ZDefaultValue(@, JStr("private")),
                           !["roundsToScore"] = ZDefaultValue(@, JNum(DefaultRoundsToScore))]
                   ELSE NoFields]

\* A string handed to JSON.parse: whether it is truthy (not ''), whether
\* it is well-formed JSON, and the value it denotes when it is
JsonText(value) == [truthy |-> TRUE, wellFormed |-> TRUE, value |-> value]
MalformedText == [truthy |-> TRUE, wellFormed |-> FALSE, value |-> JNotObject]
EmptyText == [truthy |-> FALSE, wellFormed |-> FALSE, value |-> JNotObject]

\* JSON.parse (line 129): a SyntaxError on anything but well-formed JSON
JsonParse(text) == [threw |-> ~text.wellFormed, value |-> text.value]

\* What this.ai.run settled with (lines 105-114)
AiThrows == [threw |-> TRUE, kind |-> "none", text |-> EmptyText, value |-> JNotObject]
AiString(text) == [threw |-> FALSE, kind |-> "string", text |-> text, value |-> JNotObject]
AiWithResponse(text) == [threw |-> FALSE, kind |-> "response", text |-> text, value |-> JNotObject]
AiPlainObject(value) == [threw |-> FALSE, kind |-> "object", text |-> EmptyText, value |-> value]
AiNull == [threw |-> FALSE, kind |-> "null", text |-> EmptyText, value |-> JNotObject]
AiUndefined == [threw |-> FALSE, kind |-> "undefined", text |-> EmptyText, value |-> JNotObject]

\* JSON.stringify (line 125): undefined stays undefined, which JSON.parse
\* reads as the malformed text "undefined"
JsonStringify(response) ==
    IF response.kind = "undefined" THEN MalformedText
    ELSE IF response.kind = "null" THEN JsonText(JNotObject)
    ELSE JsonText(response.value)

\* Lines 119-126
WorkoutText(response) ==
    IF response.kind = "string" THEN response.text
    ELSE IF response.kind = "response"
    THEN (IF response.text.truthy THEN response.text ELSE EmptyText)
    ELSE JsonStringify(response)

\* ------------------------------------------------------------------------
\* src/ai/agent.ts: the fallback object of generateWorkoutObject
\* ------------------------------------------------------------------------

SlugChars ==
    {LowerMap[c] : c \in DOMAIN LowerMap}
    \cup {"0","1","2","3","4","5","6","7","8","9"} \cup WhiteSpace

\* .replace(/[^a-z0-9\s]/g, '') (line 142)
RECURSIVE StripNonSlugChars(_)
StripNonSlugChars(s) ==
    IF s = "" THEN ""
    ELSE (IF CharAt(s, 1) \in SlugChars THEN CharAt(s, 1) ELSE "")
         \o StripNonSlugChars(SubSeq(s, 2, Len(s)))

\* .split(/\s+/) (line 144): the pieces between runs of whitespace; the
\* empty string gives the one piece ''
RECURSIVE SplitOnWhitespace(_)
SplitOnWhitespace(s) ==
    LET e == IndexOfAny(s, WhiteSpace, 1)
        after == {i \in e..Len(s) : CharAt(s, i) \notin WhiteSpace}
    IN  IF e = 0 THEN <<s>>
        ELSE IF after = {} THEN <<SubSeq(s, 1, e - 1), "">>
        ELSE <<SubSeq(s, 1, e - 1)>>
             \o SplitOnWhitespace(SubSeq(s, MinOf(after), Len(s)))

\* .slice(0, n)
SliceFromStart(seq, n) == SubSeq(seq, 1, IF Len(seq) < n THEN Len(seq) ELSE n)

\* .join(sep)
RECURSIVE Join(_, _)
Join(seq, sep) ==
    IF seq = <<>> THEN ""
    ELSE IF Len(seq) = 1 THEN seq[1]
    ELSE seq[1] \o sep \o Join(Tail(seq), sep)

Digits == <<"0","1","2","3","4","5","6","7","8","9">>

\* The decimal digits a template literal gives a non-negative integer
RECURSIVE NumberToString(_)
NumberToString(n) ==
    IF n < 10 THEN Digits[n + 1]
    ELSE NumberToString(n \div 10) \o Digits[(n % 10) + 1]

FallbackIdWords == 3

FallbackSlug(wodText) ==
    Join(SliceFromStart(SplitOnWhitespace(Trim(StripNonSlugChars(ToLowerCase(wodText)))),
                        FallbackIdWords), "-")

\* Mutant: the slug alone, without || `workout-${Date.now()}`
FallbackIdSlugOnly(wodText, now) == FallbackSlug(wodText)

\* Lines 140-146; Date.now() is now
FallbackId(wodText, now) ==
    IF FallbackSlug(wodText) # "" THEN FallbackSlug(wodText)
    ELSE "workout-" \o NumberToString(now)

\* wodText.split('\n')[0]
FirstLine(s) ==
    LET e == IndexOf(s, "\n", 1)
    IN  IF e = 0 THEN s ELSE SubSeq(s, 1, e - 1)

\* Line 148
FallbackName(wodText) ==
    IF Trim(FirstLine(wodText)) # "" THEN Trim(FirstLine(wodText))
    ELSE "Untitled Workout"

\* Line 153
FallbackDescription(wodText) ==
    IF wodText # "" THEN wodText ELSE "No description available"

\* Lines 150-157
FallbackWorkout(wodText, now) ==
    [NoFields EXCEPT
       !["id"] = JStr(FallbackId(wodText, now)),
       !["name"] = JStr(FallbackName(wodText)),
       !["description"] = JStr(FallbackDescription(wodText)),
       !["scope"] = JStr("private"),
       !["scheme"] = JStr("time"),
       !["roundsToScore"] = JNum(1)]

\* Lines 104-135, the try block: the value returned, or threw
TryGenerate(response) ==
    LET parsed == JsonParse(WorkoutText(response))
        validated == WorkoutSchemaParse(parsed.value)
    IN  IF response.threw \/ parsed.threw THEN [threw |-> TRUE, value |-> NoFields]
        ELSE validated

\* Mutant: the catch block throws the error again
GenerateWorkoutObjectRethrows(wodText, response, now) ==
    LET tried == TryGenerate(response)
    IN  [rejected |-> tried.threw, caught |-> tried.threw, workout |-> tried.value]

\* Lines 61-159: how the promise settles
GenerateWorkoutObject(wodText, response, now) ==
    LET tried == TryGenerate(response)
    IN  [rejected |-> FALSE,
         caught |-> tried.threw,
         workout |-> IF tried.threw THEN FallbackWorkout(wodText, now)
                     ELSE tried.value]

\* ------------------------------------------------------------------------
\* src/db/database.ts and the D1 database behind it
\* ------------------------------------------------------------------------

\* The four tables the service reads and writes; a row keeps its key and
\* the columns the service's queries look at
EmptyDatabase ==
    [workouts |-> {}, programming_track |-> {}, track_workout |-> {},
     scheduled_workout_instance |-> {}]

WorkoutRow(id, name) == [id |-> id, name |-> name]

TrackWorkoutRow(id, trackId, workoutId, dayNumber) ==
    [id |-> id, trackId |-> trackId, workoutId |-> workoutId, dayNumber |-> dayNumber]

ScheduledRow(id, teamId, trackWorkoutId) ==
    [id |-> id, teamId |-> teamId, trackWorkoutId |-> trackWorkoutId]

IdsOf(rows) == {r.id : r \in rows}

\* How D1 answers one statement besides what the tables say: a .first()
\* may find no row or throw, a .run() may throw or report success = false
FirstAnswers == {"row", "null", "throws"}
RunAnswers == {"ok", "throws", "unsuccessful"}

D1ErrorText == "D1_ERROR: internal error"
UniqueErrorText == "D1_ERROR: UNIQUE constraint failed"
ForeignKeyErrorText == "D1_ERROR: FOREIGN KEY constraint failed"
UnsuccessfulErrorText == "Constraint violation"

\* SELECT COUNT(*) as count FROM <table> WHERE id = ? (lines 95-105)
CountById(ids, id) == IF id \in ids THEN 1 ELSE 0

\* Mutant: the foreign keys are not enforced
ConstraintBrokenPrimaryKeyOnly(database, table, row) ==
    IF row.id \in IdsOf(database[table]) THEN UniqueErrorText ELSE ""

\* The constraint an INSERT would break, "" if none: the primary key of
\* every table and the foreign keys of the migrations
ConstraintBroken(database, table, row) ==
    IF row.id \in IdsOf(database[table]) THEN UniqueErrorText
    ELSE IF table = "track_workout"
            /\ (row.trackId \notin database.programming_track
                \/ row.workoutId \notin IdsOf(database.workouts))
    THEN ForeignKeyErrorText
    ELSE IF table = "scheduled_workout_instance"
            /\ row.trackWorkoutId \notin IdsOf(database.track_workout)
    THEN ForeignKeyErrorText
    ELSE ""

InsertRow(database, table, row) ==
    [database EXCEPT ![table] = @ \cup {row}]

\* DatabaseConnection.executeStatement with an INSERT: the statement is
\* run, and the call throws when D1 throws or reports success = false
ExecuteStatement(database, table, row, answer) ==
    LET broken == ConstraintBroken(database, table, row)
    IN  IF answer = "throws"
        THEN [threw |-> TRUE, message |-> D1ErrorText, database |-> database]
        ELSE IF answer = "unsuccessful"
        THEN [threw |-> TRUE,
              message |-> "SQL execution failed: " \o UnsuccessfulErrorText,
              database |-> database]
        ELSE IF broken # ""
        THEN [threw |-> TRUE, message |-> broken, database |-> database]
        ELSE [threw |-> FALSE, message |-> "",
              database |-> InsertRow(database, table, row)]

\* ------------------------------------------------------------------------
\* src/services/database.service.ts: DatabaseService
\* ------------------------------------------------------------------------

\* How a call of the service settles: value is the id it resolves to,
\* number the number it resolves to, message the text of the error it
\* rejects with, inserts counts the INSERT statements handed to D1, ids
\* are the ids executeTransaction resolves to
Resolved(value, number, inserts, database) ==
    [settled |-> "resolved", value |-> value, number |-> number,
     message |-> "", inserts |-> inserts, database |-> database, ids |-> <<>>]

Rejected(message, inserts, database) ==
    [settled |-> "rejected", value |-> "", number |-> 0,
     message |-> message, inserts |-> inserts, database |-> database, ids |-> <<>>]

\* WorkoutInput: id is optional
WorkoutInput(hasId, id, name) == [hasId |-> hasId, id |-> id, name |-> name]

\* if (!workoutId): undefined and '' are both falsy
NoWorkoutId(workoutData) == ~workoutData.hasId \/ workoutData.id = ""

\* workoutExists (lines 176-188): any error of the query counts as absent
WorkoutExists(database, workoutId, answer) ==
    answer = "row" /\ CountById(IdsOf(database.workouts), workoutId) > 0

\* The INSERT of a service method and what the method does with its result
InsertAndReturn(database, table, row, answer) ==
    LET result == ExecuteStatement(database, table, row, answer)
    IN  IF result.threw THEN Rejected(result.message, 1, database)
        ELSE Resolved(row.id, 0, 1, result.database)

\* Mutant: the id of workoutData is ignored
InsertWorkoutAlwaysGenerated(database, workoutData, generated, existsAnswer, runAnswer) ==
    InsertAndReturn(database, "workouts", WorkoutRow(generated, workoutData.name),
                    runAnswer)

\* Mutant: INSERT OR REPLACE without the existence check
InsertWorkoutReplace(database, workoutData, generated, existsAnswer, runAnswer) ==
    LET workoutId == IF NoWorkoutId(workoutData) THEN generated ELSE workoutData.id
        others == {row \in database.workouts : row.id # workoutId}
    IN  IF runAnswer # "ok" THEN Rejected(D1ErrorText, 1, database)
        ELSE Resolved(workoutId, 0, 1,
                      [database EXCEPT
                          !.workouts = others \cup {WorkoutRow(workoutId, workoutData.name)}])

\* Mutant: a provided id that is stored already is taken as inserted
InsertWorkoutOrIgnore(database, workoutData, generated, existsAnswer, runAnswer) ==
    LET workoutId == IF NoWorkoutId(workoutData) THEN generated ELSE workoutData.id
    IN  IF ~NoWorkoutId(workoutData) /\ WorkoutExists(database, workoutId, existsAnswer)
        THEN Resolved(workoutId, 0, 0, database)
        ELSE InsertAndReturn(database, "workouts",
                             WorkoutRow(workoutId, workoutData.name), runAnswer)

\* insertWorkout (lines 193-251); generated is the id the do-while loop of
\* lines 204-206 ends with
InsertWorkout(database, workoutData, generated, existsAnswer, runAnswer) ==
    LET workoutId == IF NoWorkoutId(workoutData) THEN generated ELSE workoutData.id
    IN  IF ~NoWorkoutId(workoutData) /\ WorkoutExists(database, workoutId, existsAnswer)
        THEN Rejected("Workout with ID " \o workoutId \o " already exists", 0, database)
        ELSE InsertAndReturn(database, "workouts",
                             WorkoutRow(workoutId, workoutData.name), runAnswer)

\* Mutant: the INSERT is made without the two existence checks
AddWorkoutToTrackUnchecked(database, workoutId, trackId, dayNumber, generated, workoutAnswer, trackAnswer, runAnswer) ==
    InsertAndReturn(database, "track_workout",
                    TrackWorkoutRow(generated, trackId, workoutId, dayNumber),
                    runAnswer)

\* Mutant: the INSERT takes MAX(dayNumber) + 1 of the track itself
AddWorkoutToTrackNextDay(database, workoutId, trackId, dayNumber, generated, workoutAnswer, trackAnswer, runAnswer) ==
    LET days == {r.dayNumber : r \in {t \in database.track_workout : t.trackId = trackId}}
        next == (IF days = {} THEN 0 ELSE MaxOf(days)) + 1
    IN  IF workoutAnswer # "row" \/ CountById(IdsOf(database.workouts), workoutId) = 0
        THEN Rejected("Workout " \o workoutId \o " does not exist", 0, database)
        ELSE IF trackAnswer # "row" \/ CountById(database.programming_track, trackId) = 0
        THEN Rejected("Programming track " \o trackId \o " does not exist", 0, database)
        ELSE InsertAndReturn(database, "track_workout",
                             TrackWorkoutRow(generated, trackId, workoutId, next),
                             runAnswer)

\* addWorkoutToTrack (lines 256-321)
AddWorkoutToTrack(database, workoutId, trackId, dayNumber, generated, workoutAnswer, trackAnswer, runAnswer) ==
    IF workoutAnswer = "throws" THEN Rejected(D1ErrorText, 0, database)
    ELSE IF workoutAnswer = "null"
            \/ CountById(IdsOf(database.workouts), workoutId) = 0
    THEN Rejected("Workout " \o workoutId \o " does not exist", 0, database)
    ELSE IF trackAnswer = "throws" THEN Rejected(D1ErrorText, 0, database)
    ELSE IF trackAnswer = "null"
            \/ CountById(database.programming_track, trackId) = 0
    THEN Rejected("Programming track " \o trackId \o " does not exist", 0, database)
    ELSE InsertAndReturn(database, "track_workout",
                         TrackWorkoutRow(generated, trackId, workoutId, dayNumber),
                         runAnswer)

\* scheduleWorkoutForDate (lines 326-389)
ScheduleWorkoutForDate(database, trackWorkoutId, teamId, generated, trackWorkoutAnswer, runAnswer) ==
    IF trackWorkoutAnswer = "throws" THEN Rejected(D1ErrorText, 0, database)
    ELSE IF trackWorkoutAnswer = "null"
            \/ trackWorkoutId \notin IdsOf(database.track_workout)
    THEN Rejected("Track workout " \o trackWorkoutId \o " does not exist", 0, database)
    ELSE InsertAndReturn(database, "scheduled_workout_instance",
                         ScheduledRow(generated, teamId, trackWorkoutId), runAnswer)

\* SELECT COALESCE(MAX(dayNumber), 0) + 1 as nextDayNumber (lines 108-112)
NextDayNumberQuery(database, trackId) ==
    LET days == {r.dayNumber : r \in {t \in database.track_workout : t.trackId = trackId}}
    IN  (IF days = {} THEN 0 ELSE MaxOf(days)) + 1

\* Mutant: always 1
NextDayNumberOrOneAlways(row, nextDayNumber) == 1

\* result?.nextDayNumber || 1 (line 450): null and 0 both give 1
NextDayNumberOrOne(row, nextDayNumber) ==
    IF row /\ nextDayNumber # 0 THEN nextDayNumber ELSE 1

\* getNextDayNumberForTrack (lines 441-457)
GetNextDayNumberForTrack(database, trackId, answer) ==
    IF answer = "throws" THEN Rejected(D1ErrorText, 0, database)
    ELSE Resolved("", NextDayNumberOrOne(answer = "row",
                                         NextDayNumberQuery(database, trackId)),
                  0, database)


\* ------------------------------------------------------------------------
\* DatabaseConnection.executeBatch and DatabaseService.executeTransaction
\* ------------------------------------------------------------------------

\* One element of the operations argument; the fields its type does not
\* use are ""
Operation(type, id, name, trackId, workoutId, dayNumber, teamId, trackWorkoutId) ==
    [type |-> type, id |-> id, name |-> name, trackId |-> trackId,
     workoutId |-> workoutId, dayNumber |-> dayNumber, teamId |-> teamId,
     trackWorkoutId |-> trackWorkoutId]

MaxCollisionAttempts == 5

\* Lines 488-494: `${workoutId}_${attempt}` while the id is taken
RECURSIVE FinalWorkoutId(_, _, _, _)
FinalWorkoutId(database, workoutId, attempt, existsAnswer) ==
    LET candidate == IF attempt = 0 THEN workoutId
                     ELSE workoutId \o "_" \o NumberToString(attempt)
    IN  IF WorkoutExists(database, candidate, existsAnswer)
           /\ attempt < MaxCollisionAttempts
        THEN FinalWorkoutId(database, workoutId, attempt + 1, existsAnswer)
        ELSE candidate

\* Lines 476-541: the statement one operation adds; generated holds the
\* ids the three generators give
PrepareStatement(database, operation, generated, existsAnswer) ==
    IF operation.type = "insertWorkout"
    THEN [table |-> "workouts",
          row |-> WorkoutRow(
                    FinalWorkoutId(database,
                                   IF operation.id = "" THEN generated.workout
                                   ELSE operation.id,
                                   0, existsAnswer),
                    operation.name)]
    ELSE IF operation.type = "addWorkoutToTrack"
    THEN [table |-> "track_workout",
          row |-> TrackWorkoutRow(
                    IF operation.id = "" THEN generated.trackWorkout ELSE operation.id,
                    operation.trackId, operation.workoutId, operation.dayNumber)]
    ELSE [table |-> "scheduled_workout_instance",
          row |-> ScheduledRow(
                    IF operation.id = "" THEN generated.scheduled ELSE operation.id,
                    operation.teamId, operation.trackWorkoutId)]

\* D1's batch: the statements run in order inside one transaction, and the
\* first broken constraint undoes them all
RECURSIVE RunBatch(_, _)
RunBatch(database, statements) ==
    IF statements = <<>> THEN [threw |-> FALSE, message |-> "", database |-> database]
    ELSE LET first == ExecuteStatement(database, Head(statements).table,
                                       Head(statements).row, "ok")
         IN  IF first.threw THEN first
             ELSE RunBatch(first.database, Tail(statements))

\* The error texts of the results with success = false; errors[i] is "" for
\* a result that reports success
RECURSIVE FailedErrors(_)
FailedErrors(errors) ==
    IF errors = <<>> THEN <<>>
    ELSE (IF Head(errors) = "" THEN <<>> ELSE <<Head(errors)>>)
         \o FailedErrors(Tail(errors))

\* DatabaseConnection.executeBatch (lines 82-108): batchThrows tells whether
\* db.batch rejects, errors what its results report; the results come back
\* only when none of them failed
ExecuteBatch(database, statements, batchThrows, errors) ==
    LET ran == RunBatch(database, statements)
    IN  IF batchThrows
        THEN [threw |-> TRUE, message |-> D1ErrorText, database |-> database,
              results |-> <<>>]
        ELSE IF FailedErrors(errors) # <<>>
        THEN [threw |-> TRUE,
              message |-> "Batch execution failed: " \o Join(FailedErrors(errors), ", "),
              database |-> database, results |-> <<>>]
        ELSE IF ran.threw
        THEN [threw |-> TRUE, message |-> ran.message, database |-> database,
              results |-> <<>>]
        ELSE [threw |-> FALSE, message |-> "", database |-> ran.database,
              results |-> errors]

\* Line 550
TransactionFailedMessage(failed) ==
    "Transaction failed: " \o Join(failed, ", ")

\* executeTransaction (lines 462-562)
ExecuteTransaction(database, operations, generated, existsAnswer, batchThrows, errors) ==
    LET statements == [i \in 1..Len(operations) |->
                          PrepareStatement(database, operations[i], generated,
                                           existsAnswer)]
        batch == ExecuteBatch(database, statements, batchThrows, errors)
    IN  IF batch.threw
        THEN [Rejected(batch.message, Len(statements), database)
                 EXCEPT !.ids = <<>>]
        ELSE IF FailedErrors(batch.results) # <<>>
        THEN [Rejected(TransactionFailedMessage(FailedErrors(batch.results)),
                       Len(statements),
                       batch.database) EXCEPT !.ids = <<>>]
        ELSE [Resolved("", 0, Len(statements), batch.database)
                 EXCEPT !.ids = [i \in 1..Len(statements) |-> statements[i].row.id]]

\* ------------------------------------------------------------------------
\* src/index.ts: DailyScrapeWorkflow.run
\* ------------------------------------------------------------------------

\* Mutant: a page with text is a workout, rest day or not
WorkflowBranchIgnoringRestDay(details) ==
    IF Truthy(details.wodText) THEN "workout" ELSE "failed"

\* Lines 85-87 and 171: if (wodDetails.isRestDay) ... else if
\* (wodDetails.wodText) ... else ...
WorkflowBranch(details) ==
    IF details.isRestDay THEN "rest"
    ELSE IF Truthy(details.wodText) THEN "workout"
    ELSE "failed"

NoWorkoutObject == [null |-> TRUE, fields |-> NoFields]

NoDbResults ==
    [null |-> TRUE, workoutId |-> "", trackWorkoutId |-> "",
     scheduledInstanceId |-> "", dayNumber |-> 0]

\* Lines 112-125: the WorkoutInput built from the workout object
WorkoutDataOf(workout) ==
    WorkoutInput(TRUE, workout.fields["id"].s, workout.fields["name"].s)

\* Mutant: the track row is linked to the id of the workout object
WorkoutIdOfWorkoutData(workoutData, insertedId) == workoutData.id

\* Lines 127 and 135: the id insertWorkout resolved to is the one passed on
WorkoutIdForTrack(workoutData, insertedId) == insertedId

\* One entry of the record of the calls the database-operations step made
ServiceCall(op, argument, outcome) ==
    [op |-> op, argument |-> argument, settled |-> outcome.settled,
     value |-> outcome.value, number |-> outcome.number,
     message |-> outcome.message]

\* Lines 80 and 181-189: aiAnalysis is never assigned after line 80, the
\* step that did is a comment (lines 163-165)
WorkflowResult(details, workout, results) ==
    [status |-> "completed", wodDetails |-> details, workoutObject |-> workout,
     databaseResults |-> results, aiAnalysis |-> "null", workoutSuggestions |-> <<>>]

NoWorkflowResult ==
    [status |-> "none", wodDetails |-> WodDetails(NullStr, FALSE), workoutObject |-> NoWorkoutObject,
     databaseResults |-> NoDbResults, aiAnalysis |-> "null", workoutSuggestions |-> <<>>]

\* ------------------------------------------------------------------------
\* State
\* ------------------------------------------------------------------------

VARIABLES
    pc,               \* position inside extractWodDetails
    htmlContent,      \* its argument
    dom,              \* the tree cheerio.load built, $
    wodTextContent,   \* the local of that name
    result,           \* the WodDetails returned
    lastIndex,        \* lastIndex of the RegExp object line 201 used last
    memo,             \* an earlier call: its argument and what it returned
    agentPc,          \* position inside generateWorkoutObject
    agentWodText,     \* its argument
    aiResponse,       \* what this.ai.run settled with
    clock,            \* what Date.now() gives the call
    settled,          \* how the promise of the call settled
    database,         \* the tables of the D1 database
    dbCall,           \* the last call of DatabaseService and how it settled
    dbPc,             \* whether that call has been returned from
    wfPc,             \* position inside DailyScrapeWorkflow.run
    wfTrackId,        \* defaultTrackId
    wfHtml,           \* htmlContent, the value of step "fetch-wod-page"
    wodDetails,       \* the value of step "extract-wod-details"
    workoutObject,    \* the local of that name
    dbResults,        \* the local of that name
    stepsRun,         \* names of the steps whose callback was invoked
    serviceCalls,     \* calls of the service in this invocation of the
                      \* database-operations callback, and how they settled
    attempt,          \* number of this invocation of that callback
    runs,             \* runs started so far
    wfBefore,         \* the tables when the run started
    wfResult,         \* what run returned
    stepPc,           \* for each of two concurrent invocations of the
                      \* database-operations callback, its position
    stepLocals,       \* and its locals
    loopPc,           \* position inside a call of insertWorkout that got
                      \* no id, statement by statement
    loopLocals        \* and its locals

extractVars == <<pc, htmlContent, dom, wodTextContent, result, lastIndex, memo>>

agentVars == <<agentPc, agentWodText, aiResponse, clock, settled>>

dbVars == <<database, dbCall, dbPc>>

wfVars == <<wfPc, wfTrackId, wfHtml, wodDetails, workoutObject, dbResults,
            stepsRun, serviceCalls, attempt, runs, wfBefore, wfResult>>

stepVars == <<stepPc, stepLocals>>

loopVars == <<loopPc, loopLocals>>

otherThanDb == <<extractVars, agentVars, wfVars, stepVars, loopVars>>

vars == <<extractVars, agentVars, dbVars, wfVars, stepVars, loopVars>>

NoResult == [wodText |-> NullStr, isRestDay |-> FALSE]

NoMemo == [set |-> FALSE, html |-> "", result |-> NoResult, between |-> FALSE]

ExtractInit ==
    /\ pc = "idle"
    /\ htmlContent = ""
    /\ dom = <<>>
    /\ wodTextContent = NullStr
    /\ result = NoResult
    /\ lastIndex = 0
    /\ memo = NoMemo

NotSettled == [rejected |-> FALSE, caught |-> FALSE, workout |-> NoFields]

AgentInit ==
    /\ agentPc = "idle"
    /\ agentWodText = ""
    /\ aiResponse = AiUndefined
    /\ clock = 0
    /\ settled = NotSettled

\* ------------------------------------------------------------------------
\* Calls of DatabaseService
\* ------------------------------------------------------------------------

DefaultTrackId == "ptrk_crossfit_dotcom"
DefaultTeamId == "team_cokkpu1klwo0ulfhl1iwzpvn"

MaxWorkouts == 2
MaxTrackWorkouts == 2
MaxScheduled == 1

WithinBounds(db) ==
    /\ Cardinality(db.workouts) <= MaxWorkouts
    /\ Cardinality(db.track_workout) <= MaxTrackWorkouts
    /\ Cardinality(db.scheduled_workout_instance) <= MaxScheduled

\* Arguments the callers pass
WorkoutInputs ==
    { WorkoutInput(TRUE, "fran", "Fran"),
      WorkoutInput(TRUE, "fran", "Fran, scaled"),
      WorkoutInput(TRUE, "", "Untitled Workout"),
      WorkoutInput(FALSE, "", "Test Workout") }

\* What generateWorkoutId, generateTrackWorkoutId and
\* generateScheduledInstanceId may give
GeneratedWorkoutIds == {"workout_mb1_k3x_2f"}
GeneratedTrackWorkoutIds == {"trwk_mb1_k3x_2f", "trwk_mb2_p9q_1a"}
GeneratedScheduledIds == {"swi_mb1_k3x_2f"}

WorkoutIdArguments == {"fran", "nonexistent-workout"}
TrackIdArguments == {DefaultTrackId, "nonexistent-track"}
TrackWorkoutIdArguments == GeneratedTrackWorkoutIds \cup {"nonexistent-track-workout"}
DayNumbers == {-1, 3}

\* How D1 answers the statements of one call, in the order the call makes
\* them: every statement answered from the tables, or one of them not
InsertWorkoutAnswers ==
    { <<"row", "ok">>, <<"null", "ok">>, <<"throws", "ok">>,
      <<"row", "throws">>, <<"row", "unsuccessful">> }

AddWorkoutToTrackAnswers ==
    { <<"row", "row", "ok">>, <<"null", "row", "ok">>, <<"throws", "row", "ok">>,
      <<"row", "null", "ok">>, <<"row", "throws", "ok">>,
      <<"row", "row", "throws">>, <<"row", "row", "unsuccessful">> }

ScheduleWorkoutAnswers ==
    { <<"row", "ok">>, <<"null", "ok">>, <<"throws", "ok">>,
      <<"row", "throws">>, <<"row", "unsuccessful">> }

NoCall == [op |-> "none"]

DatabaseInit ==
    /\ database = [EmptyDatabase EXCEPT !.programming_track = {DefaultTrackId}]
    /\ dbCall = NoCall
    /\ dbPc = "idle"

\* ------------------------------------------------------------------------
\* Runs of DailyScrapeWorkflow
\* ------------------------------------------------------------------------

\* Runs of the workflow one behaviour holds
MaxRuns == 2

\* Times the runtime invokes the callback of the database-operations step
\* in one run
MaxStepAttempts == 2

WorkflowInit ==
    /\ wfPc = "idle"
    /\ wfTrackId = DefaultTrackId
    /\ wfHtml = ""
    /\ wodDetails = WodDetails(NullStr, FALSE)
    /\ workoutObject = NoWorkoutObject
    /\ dbResults = NoDbResults
    /\ stepsRun = {}
    /\ serviceCalls = <<>>
    /\ attempt = 0
    /\ runs = 0
    /\ wfBefore = EmptyDatabase
    /\ wfResult = NoWorkflowResult

\* The two invocations of the database-operations callback that run at
\* the same time, each for a run of its own
StepIds == {"first", "second"}

NoStepLocals ==
    [workoutData |-> WorkoutInput(FALSE, "", ""), workoutId |-> "",
     dayNumber |-> 0, trackWorkoutId |-> "", scheduledInstanceId |-> "",
     message |-> "", rowsSeen |-> {}]

StepInit ==
    /\ stepPc = [s \in StepIds |-> "idle"]
    /\ stepLocals = [s \in StepIds |-> NoStepLocals]

\* The locals of a call of insertWorkout: its argument, the local
\* workoutId, what workoutExists returned for it ("none" before the
\* check), the ids of this call for which it returned true, and how the
\* call settled
NoLoopLocals ==
    [workoutData |-> WorkoutInput(FALSE, "", ""), workoutId |-> "",
     report |-> "none", repeated |-> {}, outcome |-> [settled |-> "pending"]]

LoopInit ==
    /\ loopPc = "idle"
    /\ loopLocals = NoLoopLocals

\* Lines 99-124: the call, pre-cleaning and cheerio.load
Load(html) ==
    /\ pc = "idle"
    /\ pc' = "primary"
    /\ htmlContent' = html
    /\ dom' = ParseHtml(PreClean(html))
    /\ wodTextContent' = NullStr
    /\ UNCHANGED <<result, lastIndex, memo>>
    /\ UNCHANGED <<agentVars, dbVars, wfVars, stepVars, loopVars>>

\* Lines 129-157
RunPrimaryStrategy ==
    /\ pc = "primary"
    /\ LET text == PrimaryStrategy(dom)
       IN  /\ wodTextContent' = text
           /\ pc' = IF FallbackNeeded(text) THEN "fallback" ELSE "classify"
    /\ dom' = DocumentAfterPrimary(dom)
    /\ UNCHANGED <<htmlContent, result, lastIndex, memo>>
    /\ UNCHANGED <<agentVars, dbVars, wfVars, stepVars, loopVars>>

\* Lines 159-199
RunFallbackStrategy ==
    /\ pc = "fallback"
    /\ wodTextContent' = FallbackStrategy(dom, wodTextContent)
    /\ dom' = DocumentAfterFallback(dom)
    /\ pc' = "classify"
    /\ UNCHANGED <<htmlContent, result, lastIndex, memo>>
    /\ UNCHANGED <<agentVars, dbVars, wfVars, stepVars, loopVars>>

\* Lines 201-215; remember tells whether the caller keeps this call in memo
ClassifyAndReturn(remember) ==
    /\ pc = "classify"
    /\ LET check == RestDayCheck(wodTextContent, lastIndex)
           details == WodDetails(wodTextContent, check.isRestDay)
       IN  /\ lastIndex' = check.lastIndex
           /\ IF check.threw
              THEN /\ pc' = "threw"
                   /\ UNCHANGED <<result, memo>>
              ELSE /\ pc' = "returned"
                   /\ result' = details
                   /\ memo' = IF remember /\ ~memo.set
                              THEN [set |-> TRUE, html |-> htmlContent,
                                    result |-> details, between |-> FALSE]
                              ELSE IF memo.set /\ memo.html # htmlContent
                              THEN [memo EXCEPT !.between = TRUE]
                              ELSE memo
    /\ UNCHANGED <<htmlContent, dom, wodTextContent>>
    /\ UNCHANGED <<agentVars, dbVars, wfVars, stepVars, loopVars>>

\* The caller has the result; the locals of the call are gone
Finish ==
    /\ pc \in {"returned", "threw"}
    /\ pc' = "idle"
    /\ htmlContent' = ""
    /\ dom' = <<>>
    /\ wodTextContent' = NullStr
    /\ result' = NoResult
    /\ UNCHANGED <<lastIndex, memo>>
    /\ UNCHANGED <<agentVars, dbVars, wfVars, stepVars, loopVars>>

Init ==
    ExtractInit /\ AgentInit /\ DatabaseInit /\ WorkflowInit /\ StepInit /\ LoopInit

Next ==
    \/ \E html \in HtmlInputs : Load(html)
    \/ RunPrimaryStrategy
    \/ RunFallbackStrategy
    \/ ClassifyAndReturn(FALSE)
    \/ Finish

Spec == Init /\ [][Next]_vars
\* ------------------------------------------------------------------------
\* Repeated calls, for what one call may leave behind for the next
\* ------------------------------------------------------------------------

HistoryInputs ==
    { EndToEndHtml, "" }
    \cup { "<html><body><div class=\"_workout-of-the-day-content-x7f\"><article>" \o f
              \o "</article></div></body></html>" :
              f \in { "<p>Rest Day. Recover and hydrate.</p>",
                      "<p><strong>REST DAY</strong></p><p>Recover &amp; hydrate.</p>",
                      "<p>Take a rest  day and recover.</p>",
                      "<p>Active rest<br>day of recovery.</p>",
                      "<p>Rest Day</p>",
                      "<p>Recovery is over. Tomorrow: rest day.</p>" } }
    \cup { "<html><body><h2>Workout of the Day</h2>" \o f \o "</body></html>" :
              f \in { "<p>Rest Day. Recover and hydrate.</p>",
                      "<p>Deadlift 5-5-5-5-5, rest as needed</p>" } }

HistoryNext ==
    \/ \E html \in HistoryInputs : Load(html)
    \/ RunPrimaryStrategy
    \/ RunFallbackStrategy
    \/ \E remember \in BOOLEAN : ClassifyAndReturn(remember)
    \/ Finish

HistorySpec == Init /\ [][HistoryNext]_vars

\* ------------------------------------------------------------------------
\* Calls of generateWorkoutObject
\* ------------------------------------------------------------------------

WodTexts ==
    { "AMRAP 20:\n10 Burpees\n15 Pull-ups\n20 Air Squats",
      "For time:\n21-15-9 reps of:\nThrusters (95/65 lb)\nPull-ups",
      "  Fran  \n21-15-9 Thrusters, Pull-ups",
      "Rest Day",
      "Murph",
      "\nFor time: 100 burpees",
      "***\n---",
      " \n ",
      "" }

GeneratedFields ==
    [NoFields EXCEPT
       !["id"] = JStr("amrap-burpees-pullups-squats"),
       !["name"] = JStr("AMRAP Burpees, Pull-ups & Squats"),
       !["description"] = JStr("A 20-minute AMRAP"),
       !["scope"] = JStr("public"),
       !["scheme"] = JStr("rounds-reps"),
       !["repsPerRound"] = JNum(45),
       !["roundsToScore"] = JNum(2),
       !["tiebreakScheme"] = JNull,
       !["secondaryScheme"] = JStr("reps")]

MinimalFields ==
    [NoFields EXCEPT
       !["id"] = JStr("fran"),
       !["name"] = JStr("Fran"),
       !["description"] = JStr("21-15-9 thrusters and pull-ups"),
       !["scheme"] = JStr("time-with-cap")]

\* Objects the model may answer with: two that satisfy WorkoutSchema and
\* one for each way of failing it
JsonValues ==
    { JObject(GeneratedFields), JObject(MinimalFields), JNotObject,
      JObject([GeneratedFields EXCEPT !["scheme"] = JStr("amrap")]),
      JObject([GeneratedFields EXCEPT !["scheme"] = Absent]),
      JObject([GeneratedFields EXCEPT !["id"] = Absent]),
      JObject([GeneratedFields EXCEPT !["name"] = JNull]),
      JObject([GeneratedFields EXCEPT !["description"] = JNum(7)]),
      JObject([GeneratedFields EXCEPT !["scope"] = JStr("team")]),
      JObject([GeneratedFields EXCEPT !["repsPerRound"] = JStr("45")]),
      JObject([GeneratedFields EXCEPT !["roundsToScore"] = JNull]),
      JObject([GeneratedFields EXCEPT !["tiebreakScheme"] = JStr("load")]),
      JObject([GeneratedFields EXCEPT !["secondaryScheme"] = JStr("time-with-cap")]) }

AiResponses ==
    { AiThrows, AiNull, AiUndefined,
      AiString(MalformedText), AiString(EmptyText),
      AiWithResponse(MalformedText), AiWithResponse(EmptyText) }
    \cup { AiString(JsonText(v)) : v \in JsonValues }
    \cup { AiWithResponse(JsonText(v)) : v \in JsonValues }
    \cup { AiPlainObject(v) : v \in JsonValues }

\* Values of Date.now(), in seconds to stay within the integers of the checker
Timestamps == {1793836800, 1793836801}

\* Lines 61-114: the call, up to the await of this.ai.run
CallGenerateWorkoutObject(wodText) ==
    /\ agentPc = "idle"
    /\ agentPc' = "awaiting"
    /\ agentWodText' = wodText
    /\ UNCHANGED <<aiResponse, clock, settled>>
    /\ UNCHANGED <<extractVars, dbVars, wfVars, stepVars, loopVars>>

\* Lines 105-158: this.ai.run settles and the rest of the call runs
AiRunSettles(response, now) ==
    /\ agentPc = "awaiting"
    /\ aiResponse' = response
    /\ clock' = now
    /\ settled' = GenerateWorkoutObject(agentWodText, response, now)
    /\ agentPc' = IF settled'.rejected THEN "rejected" ELSE "resolved"
    /\ UNCHANGED agentWodText
    /\ UNCHANGED <<extractVars, dbVars, wfVars, stepVars, loopVars>>

\* The caller has the workout; the locals of the call are gone
AgentFinish ==
    /\ agentPc \in {"resolved", "rejected"}
    /\ agentPc' = "idle"
    /\ agentWodText' = ""
    /\ aiResponse' = AiUndefined
    /\ clock' = 0
    /\ settled' = NotSettled
    /\ UNCHANGED <<extractVars, dbVars, wfVars, stepVars, loopVars>>

AgentNext ==
    \/ \E wodText \in WodTexts : CallGenerateWorkoutObject(wodText)
    \/ \E response \in AiResponses, now \in Timestamps : AiRunSettles(response, now)
    \/ AgentFinish

AgentSpec == Init /\ [][AgentNext]_vars

\* ------------------------------------------------------------------------
\* Calls of DatabaseService: the actions
\* ------------------------------------------------------------------------

\* One call of insertWorkout, from the call to the settling of its promise
CallInsertWorkout(workoutData, generated, existsAnswer, runAnswer) ==
    LET outcome == InsertWorkout(database, workoutData, generated, existsAnswer, runAnswer)
    IN  /\ dbPc = "idle"
        /\ dbPc' = "settled"
        /\ NoWorkoutId(workoutData) => ~WorkoutExists(database, generated, existsAnswer)
        /\ WithinBounds(outcome.database)
        /\ database' = outcome.database
        /\ dbCall' = [op |-> "insertWorkout", workoutData |-> workoutData,
                      generated |-> generated,
                      answers |-> <<existsAnswer, runAnswer>>,
                      before |-> database, outcome |-> outcome]

\* One call of addWorkoutToTrack
CallAddWorkoutToTrack(workoutId, trackId, dayNumber, generated, workoutAnswer, trackAnswer, runAnswer) ==
    LET outcome == AddWorkoutToTrack(database, workoutId, trackId, dayNumber,
                                     generated, workoutAnswer, trackAnswer, runAnswer)
    IN  /\ dbPc = "idle"
        /\ dbPc' = "settled"
        /\ WithinBounds(outcome.database)
        /\ database' = outcome.database
        /\ dbCall' = [op |-> "addWorkoutToTrack", workoutId |-> workoutId,
                      trackId |-> trackId, dayNumber |-> dayNumber,
                      generated |-> generated,
                      answers |-> <<workoutAnswer, trackAnswer, runAnswer>>,
                      before |-> database, outcome |-> outcome]

\* One call of scheduleWorkoutForDate
CallScheduleWorkoutForDate(trackWorkoutId, teamId, generated, trackWorkoutAnswer, runAnswer) ==
    LET outcome == ScheduleWorkoutForDate(database, trackWorkoutId, teamId, generated,
                                          trackWorkoutAnswer, runAnswer)
    IN  /\ dbPc = "idle"
        /\ dbPc' = "settled"
        /\ WithinBounds(outcome.database)
        /\ database' = outcome.database
        /\ dbCall' = [op |-> "scheduleWorkoutForDate",
                      trackWorkoutId |-> trackWorkoutId, teamId |-> teamId,
                      generated |-> generated,
                      answers |-> <<trackWorkoutAnswer, runAnswer>>,
                      before |-> database, outcome |-> outcome]

\* One call of getNextDayNumberForTrack
CallGetNextDayNumberForTrack(trackId, answer) ==
    LET outcome == GetNextDayNumberForTrack(database, trackId, answer)
    IN  /\ dbPc = "idle"
        /\ dbPc' = "settled"
        /\ database' = outcome.database
        /\ dbCall' = [op |-> "getNextDayNumberForTrack", trackId |-> trackId,
                      answers |-> <<answer>>,
                      before |-> database, outcome |-> outcome]

InsertWorkoutOperation(id, name) ==
    Operation("insertWorkout", id, name, "", "", 0, "", "")

AddWorkoutToTrackOperation(trackId, workoutId, dayNumber) ==
    Operation("addWorkoutToTrack", "", "", trackId, workoutId, dayNumber, "", "")

ScheduleWorkoutOperation(teamId, trackWorkoutId) ==
    Operation("scheduleWorkout", "", "", "", "", 0, teamId, trackWorkoutId)

\* Arguments of executeTransaction: one, two and three operations, with
\* rows that exist and rows that do not
OperationLists ==
    { <<InsertWorkoutOperation("", "Transaction Workout"),
        AddWorkoutToTrackOperation(DefaultTrackId, "workout_mb1_k3x_2f", 3),
        ScheduleWorkoutOperation(DefaultTeamId, "trwk_mb1_k3x_2f")>>,
      <<InsertWorkoutOperation("", "Failed Transaction Workout"),
        AddWorkoutToTrackOperation("invalid-track", "workout-123", 3)>>,
      <<InsertWorkoutOperation("fran", "Fran")>>,
      <<AddWorkoutToTrackOperation(DefaultTrackId, "fran", 3)>> }

\* What a result of db.batch may report: "" for success = true
BatchErrorTexts == {"", "Constraint violation", "Disk full"}

GeneratedIds ==
    [workout : GeneratedWorkoutIds, trackWorkout : GeneratedTrackWorkoutIds,
     scheduled : GeneratedScheduledIds]

\* One call of executeTransaction
CallExecuteTransaction(operations, generated, existsAnswer, batchThrows, errors) ==
    LET outcome == ExecuteTransaction(database, operations, generated, existsAnswer,
                                      batchThrows, errors)
    IN  /\ dbPc = "idle"
        /\ dbPc' = "settled"
        /\ WithinBounds(outcome.database)
        /\ database' = outcome.database
        /\ dbCall' = [op |-> "executeTransaction", operations |-> operations,
                      generated |-> generated, answers |-> <<existsAnswer>>,
                      batchThrows |-> batchThrows, errors |-> errors,
                      before |-> database, outcome |-> outcome]

\* The caller has the result of the call
DbReturn ==
    /\ dbPc = "settled"
    /\ dbPc' = "idle"
    /\ dbCall' = NoCall
    /\ UNCHANGED database

DbNext ==
    \/ /\ \E workoutData \in WorkoutInputs, generated \in GeneratedWorkoutIds,
             answers \in InsertWorkoutAnswers :
             CallInsertWorkout(workoutData, generated, answers[1], answers[2])
       /\ UNCHANGED otherThanDb
    \/ /\ \E workoutId \in WorkoutIdArguments, trackId \in TrackIdArguments,
             dayNumber \in DayNumbers, generated \in GeneratedTrackWorkoutIds,
             answers \in AddWorkoutToTrackAnswers :
             CallAddWorkoutToTrack(workoutId, trackId, dayNumber, generated,
                                   answers[1], answers[2], answers[3])
       /\ UNCHANGED otherThanDb
    \/ /\ \E trackWorkoutId \in TrackWorkoutIdArguments,
             generated \in GeneratedScheduledIds,
             answers \in ScheduleWorkoutAnswers :
             CallScheduleWorkoutForDate(trackWorkoutId, DefaultTeamId, generated,
                                        answers[1], answers[2])
       /\ UNCHANGED otherThanDb
    \/ /\ \E trackId \in TrackIdArguments, answer \in FirstAnswers :
             CallGetNextDayNumberForTrack(trackId, answer)
       /\ UNCHANGED otherThanDb
    \/ /\ \E operations \in OperationLists, generated \in GeneratedIds,
             existsAnswer \in {"row", "throws"}, batchThrows \in BOOLEAN :
             \E errors \in [1..Len(operations) -> BatchErrorTexts] :
                /\ batchThrows => \A i \in 1..Len(operations) : errors[i] = ""
                /\ CallExecuteTransaction(operations, generated, existsAnswer,
                                          batchThrows, errors)
       /\ UNCHANGED otherThanDb
    \/ /\ DbReturn
       /\ UNCHANGED otherThanDb

DbSpec == Init /\ [][DbNext]_vars

\* ------------------------------------------------------------------------
\* DailyScrapeWorkflow.run: the actions
\* ------------------------------------------------------------------------

\* What the page of the day may be
WorkflowPages ==
    { EndToEndHtml,
      "<div class=\"_workout-of-the-day-content-x7f\"><article>"
          \o "<p>Rest Day. Recover and hydrate.</p></article></div>",
      "<h2>Workout of the Day</h2><p>Thrusters and pull-ups, 21-15-9</p>",
      "<html><body><p>Nothing here</p></body></html>" }

\* What the model answers in a run
WorkflowAiResponses ==
    { AiThrows,
      AiString(JsonText(JObject(GeneratedFields))),
      AiString(JsonText(JObject([MinimalFields EXCEPT !["id"] = JStr("")]))) }

\* env.DEFAULT_TRACK_ID || 'ptrk_crossfit_dotcom'
WorkflowTrackIds == {DefaultTrackId, "nonexistent-track"}

wfFrame == <<extractVars, agentVars, dbCall, dbPc, stepVars, loopVars>>

\* Lines 58-66: a run starts
WfStart(trackId) ==
    /\ wfPc = "idle"
    /\ runs < MaxRuns
    /\ wfPc' = "fetch"
    /\ runs' = runs + 1
    /\ wfTrackId' = trackId
    /\ wfBefore' = database
    /\ UNCHANGED <<wfHtml, wodDetails, workoutObject, dbResults, stepsRun,
                   serviceCalls, attempt, wfResult, database>>
    /\ UNCHANGED wfFrame

\* Lines 69-71: step "fetch-wod-page"; fetchWodPage throws when the
\* response is not ok
WfFetchPage(ok, html) ==
    /\ wfPc = "fetch"
    /\ stepsRun' = stepsRun \cup {"fetch-wod-page"}
    /\ wfHtml' = IF ok THEN html ELSE ""
    /\ wfPc' = IF ok THEN "extract" ELSE "threw"
    /\ UNCHANGED <<wfTrackId, wodDetails, workoutObject, dbResults,
                   serviceCalls, attempt, runs, wfBefore, wfResult, database>>
    /\ UNCHANGED wfFrame

\* Lines 75-77: step "extract-wod-details" calls extractWodDetails
WfCallExtract ==
    /\ wfPc = "extract"
    /\ Load(wfHtml)

\* Lines 75-87 and 175-177: the step has its value; the branch
WfExtractDetails ==
    /\ wfPc = "extract"
    /\ pc = "returned"
    /\ stepsRun' = stepsRun \cup {"extract-wod-details"}
    /\ wodDetails' = result
    /\ wfPc' = IF WorkflowBranch(result) = "workout" THEN "generate" ELSE "return"
    /\ pc' = "idle"
    /\ htmlContent' = ""
    /\ dom' = <<>>
    /\ wodTextContent' = NullStr
    /\ result' = NoResult
    /\ UNCHANGED <<lastIndex, memo>>
    /\ UNCHANGED <<wfTrackId, wfHtml, workoutObject, dbResults,
                   serviceCalls, attempt, runs, wfBefore, wfResult>>
    /\ UNCHANGED <<agentVars, dbVars, stepVars, loopVars>>

\* Lines 96-104: step "generate-workout-object" and the guard
\* if (workoutObject); a rejected promise of the callback ends the run in
\* the catch of lines 190-199
WfGenerateWorkoutObject(response, now) ==
    /\ wfPc = "generate"
    /\ stepsRun' = stepsRun \cup {"generate-workout-object"}
    /\ LET outcome == GenerateWorkoutObject(wodDetails.wodText.str, response, now)
       IN  IF outcome.rejected
           THEN /\ wfPc' = "threw"
                /\ UNCHANGED workoutObject
           ELSE /\ workoutObject' = [null |-> FALSE, fields |-> outcome.workout]
                /\ wfPc' = IF workoutObject'.null THEN "return" ELSE "insert"
    /\ attempt' = 1
    /\ UNCHANGED <<wfTrackId, wfHtml, wodDetails, dbResults,
                   serviceCalls, runs, wfBefore, wfResult, database>>
    /\ UNCHANGED wfFrame

\* What a call of the service leaves: the tables, the record of the call
\* and where the step goes on
WfServiceCall(op, argument, outcome, next) ==
    /\ database' = outcome.database
    /\ serviceCalls' = Append(serviceCalls, ServiceCall(op, argument, outcome))
    /\ wfPc' = IF outcome.settled = "resolved" THEN next ELSE "stepFailed"

\* Lines 104-127: the step "database-operations" begins; insertWorkout
WfInsertWorkout(generated, answers) ==
    LET workoutData == WorkoutDataOf(workoutObject)
        outcome == InsertWorkout(database, workoutData, generated,
                                 answers[1], answers[2])
    IN  /\ wfPc = "insert"
        /\ NoWorkoutId(workoutData) => ~WorkoutExists(database, generated, answers[1])
        /\ stepsRun' = stepsRun \cup {"database-operations"}
        /\ WfServiceCall("insertWorkout", workoutData.id, outcome, "dayNumber")
        /\ UNCHANGED <<wfTrackId, wfHtml, wodDetails, workoutObject, dbResults,
                       attempt, runs, wfBefore, wfResult>>
        /\ UNCHANGED wfFrame

\* Lines 131-132: getNextDayNumberForTrack
WfGetNextDayNumber(answer) ==
    LET outcome == GetNextDayNumberForTrack(database, wfTrackId, answer)
    IN  /\ wfPc = "dayNumber"
        /\ WfServiceCall("getNextDayNumberForTrack", wfTrackId, outcome, "track")
        /\ UNCHANGED <<wfTrackId, wfHtml, wodDetails, workoutObject, dbResults,
                       stepsRun, attempt, runs, wfBefore, wfResult>>
        /\ UNCHANGED wfFrame

\* Lines 134-142: addWorkoutToTrack
WfAddWorkoutToTrack(generated, answers) ==
    LET workoutId == WorkoutIdForTrack(WorkoutDataOf(workoutObject),
                                       serviceCalls[1].value)
        outcome == AddWorkoutToTrack(database, workoutId, wfTrackId,
                                     serviceCalls[2].number, generated,
                                     answers[1], answers[2], answers[3])
    IN  /\ wfPc = "track"
        /\ WfServiceCall("addWorkoutToTrack", workoutId, outcome, "schedule")
        /\ UNCHANGED <<wfTrackId, wfHtml, wodDetails, workoutObject, dbResults,
                       stepsRun, attempt, runs, wfBefore, wfResult>>
        /\ UNCHANGED wfFrame

\* Lines 144-158: scheduleWorkoutForDate and the value of the step
WfScheduleWorkout(generated, answers) ==
    LET trackWorkoutId == serviceCalls[3].value
        outcome == ScheduleWorkoutForDate(database, trackWorkoutId, DefaultTeamId,
                                          generated, answers[1], answers[2])
    IN  /\ wfPc = "schedule"
        /\ WfServiceCall("scheduleWorkoutForDate", trackWorkoutId, outcome, "return")
        /\ dbResults' = IF outcome.settled = "resolved"
                        THEN [null |-> FALSE,
                              workoutId |-> serviceCalls[1].value,
                              trackWorkoutId |-> trackWorkoutId,
                              scheduledInstanceId |-> outcome.value,
                              dayNumber |-> serviceCalls[2].number]
                        ELSE dbResults
        /\ UNCHANGED <<wfTrackId, wfHtml, wodDetails, workoutObject,
                       stepsRun, attempt, runs, wfBefore, wfResult>>
        /\ UNCHANGED wfFrame

\* The callback of the step threw and the runtime invokes it again
WfRetryStep ==
    /\ wfPc = "stepFailed"
    /\ attempt < MaxStepAttempts
    /\ attempt' = attempt + 1
    /\ serviceCalls' = <<>>
    /\ wfPc' = "insert"
    /\ UNCHANGED <<wfTrackId, wfHtml, wodDetails, workoutObject, dbResults,
                   stepsRun, runs, wfBefore, wfResult, database>>
    /\ UNCHANGED wfFrame

\* Lines 190-199: the step failed for good; run logs and throws again
WfStepFails ==
    /\ wfPc = "stepFailed"
    /\ wfPc' = "threw"
    /\ UNCHANGED <<wfTrackId, wfHtml, wodDetails, workoutObject, dbResults,
                   stepsRun, serviceCalls, attempt, runs, wfBefore, wfResult,
                   database>>
    /\ UNCHANGED wfFrame

\* Lines 181-189: run returns
WfReturn ==
    /\ wfPc = "return"
    /\ wfPc' = "completed"
    /\ wfResult' = WorkflowResult(wodDetails, workoutObject, dbResults)
    /\ UNCHANGED <<wfTrackId, wfHtml, wodDetails, workoutObject, dbResults,
                   stepsRun, serviceCalls, attempt, runs, wfBefore, database>>
    /\ UNCHANGED wfFrame

\* The run is over; its locals are gone
WfFinish ==
    /\ wfPc \in {"completed", "threw"}
    /\ wfPc' = "idle"
    /\ wfTrackId' = DefaultTrackId
    /\ wfHtml' = ""
    /\ wodDetails' = WodDetails(NullStr, FALSE)
    /\ workoutObject' = NoWorkoutObject
    /\ dbResults' = NoDbResults
    /\ stepsRun' = {}
    /\ serviceCalls' = <<>>
    /\ attempt' = 0
    /\ wfBefore' = EmptyDatabase
    /\ wfResult' = NoWorkflowResult
    /\ UNCHANGED <<runs, database>>
    /\ UNCHANGED wfFrame

WorkflowNext ==
    \/ \E trackId \in WorkflowTrackIds : WfStart(trackId)
    \/ \E html \in WorkflowPages : WfFetchPage(TRUE, html)
    \/ WfFetchPage(FALSE, "")
    \/ WfCallExtract
    \/ RunPrimaryStrategy
    \/ RunFallbackStrategy
    \/ ClassifyAndReturn(FALSE)
    \/ WfExtractDetails
    \/ \E response \in WorkflowAiResponses, now \in Timestamps :
           WfGenerateWorkoutObject(response, now)
    \/ \E generated \in GeneratedWorkoutIds, answers \in InsertWorkoutAnswers :
           WfInsertWorkout(generated, answers)
    \/ \E answer \in FirstAnswers : WfGetNextDayNumber(answer)
    \/ \E generated \in GeneratedTrackWorkoutIds, answers \in AddWorkoutToTrackAnswers :
           WfAddWorkoutToTrack(generated, answers)
    \/ \E generated \in GeneratedScheduledIds, answers \in ScheduleWorkoutAnswers :
           WfScheduleWorkout(generated, answers)
    \/ WfRetryStep
    \/ WfStepFails
    \/ WfReturn
    \/ WfFinish

WorkflowSpec == Init /\ [][WorkflowNext]_vars

\* ------------------------------------------------------------------------
\* Two database-operations steps at the same time
\* ------------------------------------------------------------------------

\* The workout objects the two runs generated
StepWorkouts ==
    { WorkoutInput(TRUE, "fran", "Fran"),
      WorkoutInput(TRUE, "murph", "Murph") }

stepFrame == <<extractVars, agentVars, wfVars, dbCall, dbPc, loopVars>>

\* What an await of the callback leaves: its locals, and where it goes on;
\* a rejected call ends the invocation
StepAwait(s, outcome, locals, next) ==
    /\ database' = outcome.database
    /\ IF outcome.settled = "resolved"
       THEN /\ stepPc' = [stepPc EXCEPT ![s] = next]
            /\ stepLocals' = [stepLocals EXCEPT ![s] = locals]
       ELSE /\ stepPc' = [stepPc EXCEPT ![s] = "failed"]
            /\ stepLocals' = [stepLocals EXCEPT ![s].message = outcome.message]
    /\ UNCHANGED stepFrame

\* Lines 104-125: the callback is invoked with the workout object of its run
StepBegin(s, workoutData) ==
    /\ stepPc[s] = "idle"
    /\ stepPc' = [stepPc EXCEPT ![s] = "insert"]
    /\ stepLocals' = [stepLocals EXCEPT ![s].workoutData = workoutData]
    /\ UNCHANGED database
    /\ UNCHANGED stepFrame

\* Line 127
StepInsertWorkout(s, generated, answers) ==
    LET outcome == InsertWorkout(database, stepLocals[s].workoutData, generated,
                                 answers[1], answers[2])
    IN  /\ stepPc[s] = "insert"
        /\ StepAwait(s, outcome,
                     [stepLocals[s] EXCEPT !.workoutId = outcome.value], "dayNumber")

\* Line 131; rowsSeen keeps, for the properties, which track_workout rows
\* were stored when the query ran
StepGetNextDayNumber(s, answer) ==
    LET outcome == GetNextDayNumberForTrack(database, DefaultTrackId, answer)
    IN  /\ stepPc[s] = "dayNumber"
        /\ StepAwait(s, outcome,
                     [stepLocals[s] EXCEPT
                         !.dayNumber = outcome.number,
                         !.rowsSeen = IdsOf(database.track_workout)],
                     "track")

\* Lines 134-142
StepAddWorkoutToTrack(s, generated, answers) ==
    LET outcome == AddWorkoutToTrack(database, stepLocals[s].workoutId,
                                     DefaultTrackId, stepLocals[s].dayNumber,
                                     generated, answers[1], answers[2], answers[3])
    IN  /\ stepPc[s] = "track"
        /\ StepAwait(s, outcome,
                     [stepLocals[s] EXCEPT !.trackWorkoutId = outcome.value],
                     "schedule")

\* Lines 144-158
StepScheduleWorkout(s, generated, answers) ==
    LET outcome == ScheduleWorkoutForDate(database, stepLocals[s].trackWorkoutId,
                                          DefaultTeamId, generated,
                                          answers[1], answers[2])
    IN  /\ stepPc[s] = "schedule"
        /\ StepAwait(s, outcome,
                     [stepLocals[s] EXCEPT !.scheduledInstanceId = outcome.value],
                     "done")

ConcurrentNext ==
    \/ \E s \in StepIds, workoutData \in StepWorkouts : StepBegin(s, workoutData)
    \/ \E s \in StepIds, generated \in GeneratedWorkoutIds,
          answers \in InsertWorkoutAnswers :
           StepInsertWorkout(s, generated, answers)
    \/ \E s \in StepIds, answer \in FirstAnswers : StepGetNextDayNumber(s, answer)
    \/ \E s \in StepIds, generated \in GeneratedTrackWorkoutIds,
          answers \in AddWorkoutToTrackAnswers :
           StepAddWorkoutToTrack(s, generated, answers)
    \/ \E s \in StepIds, generated \in GeneratedScheduledIds \cup {"swi_mb2_p9q_1a"},
          answers \in ScheduleWorkoutAnswers :
           StepScheduleWorkout(s, generated, answers)

ConcurrentSpec == Init /\ [][ConcurrentNext]_vars

\* ------------------------------------------------------------------------
\* src/db/queries.ts: insertWorkout without an id, statement by statement
\* ------------------------------------------------------------------------

\* What generateWorkoutId (lines 149-154) may return: the text depends on
\* Date.now() and Math.random() only, so it may repeat
LoopGeneratedIds == {"workout_mb1_k3x_2f", "workout_mb1_p9q_1a"}

\* Arguments whose id is falsy (line 202)
LoopInputs ==
    { WorkoutInput(FALSE, "", "Fran"), WorkoutInput(TRUE, "", "Murph") }

loopFrame == <<extractVars, agentVars, wfVars, stepVars, dbCall, dbPc>>

\* Mutant: the loop repeats while the id is reported absent
LoopRepeatsWhileAbsent(db, workoutId, answer) ==
    ~WorkoutExists(db, workoutId, answer)

\* The condition of the do-while loop, line 206
LoopRepeats(db, workoutId, answer) ==
    WorkoutExists(db, workoutId, answer)

\* Lines 195-203: the call with an argument whose id is falsy; the INSERT
\* of the call fits the bound on the table
LoopCall(workoutData) ==
    /\ loopPc = "idle"
    /\ NoWorkoutId(workoutData)
    /\ Cardinality(database.workouts) < MaxWorkouts
    /\ loopPc' = "generate"
    /\ loopLocals' = [NoLoopLocals EXCEPT !.workoutData = workoutData]
    /\ UNCHANGED database
    /\ UNCHANGED loopFrame

\* Line 205: workoutId = this.generateWorkoutId()
LoopGenerate(id) ==
    /\ loopPc = "generate"
    /\ loopPc' = "check"
    /\ loopLocals' = [loopLocals EXCEPT !.workoutId = id, !.report = "none"]
    /\ UNCHANGED database
    /\ UNCHANGED loopFrame

\* Line 206: await this.workoutExists(workoutId) and the loop condition
LoopCheck(answer) ==
    /\ loopPc = "check"
    /\ LET stored == WorkoutExists(database, loopLocals.workoutId, answer)
           again == LoopRepeats(database, loopLocals.workoutId, answer)
       IN  /\ loopLocals' =
                 [loopLocals EXCEPT
                     !.report = IF stored THEN "stored" ELSE "absent",
                     !.repeated = IF again THEN @ \cup {loopLocals.workoutId} ELSE @]
           /\ loopPc' = IF again THEN "generate" ELSE "insert"
    /\ UNCHANGED database
    /\ UNCHANGED loopFrame

\* Lines 214-250: the INSERT with the id the loop ended with, and the
\* settling of the promise
LoopInsert(runAnswer) ==
    /\ loopPc = "insert"
    /\ LET outcome == InsertAndReturn(database, "workouts",
                                      WorkoutRow(loopLocals.workoutId,
                                                 loopLocals.workoutData.name),
                                      runAnswer)
       IN  /\ database' = outcome.database
           /\ loopLocals' = [loopLocals EXCEPT !.outcome = outcome]
    /\ loopPc' = "settled"
    /\ UNCHANGED loopFrame

\* The caller takes the settled promise
LoopReturn ==
    /\ loopPc = "settled"
    /\ loopPc' = "idle"
    /\ UNCHANGED <<loopLocals, database>>
    /\ UNCHANGED loopFrame

LoopNext ==
    \/ \E workoutData \in LoopInputs : LoopCall(workoutData)
    \/ \E id \in LoopGeneratedIds : LoopGenerate(id)
    \/ \E answer \in FirstAnswers : LoopCheck(answer)
    \/ \E runAnswer \in RunAnswers : LoopInsert(runAnswer)
    \/ LoopReturn

\* The awaited statements settle and the synchronous ones return: a step
\* of the call that can be taken is taken. Which id the generator returns
\* and how D1 answers is left open.
LoopFairness ==
    /\ WF_vars(\E id \in LoopGeneratedIds : LoopGenerate(id))
    /\ WF_vars(\E answer \in FirstAnswers : LoopCheck(answer))
    /\ WF_vars(\E runAnswer \in RunAnswers : LoopInsert(runAnswer))

LoopSpec == Init /\ [][LoopNext]_vars /\ LoopFairness

\* ------------------------------------------------------------------------
\* Properties
\* ------------------------------------------------------------------------

Returned == pc = "returned"

\* The text each strategy's candidate converts to, for the loaded document
PrimaryCandidateText ==
    HtmlSnippetToMarkdown(
        InnerHtml(dom, FindArticles(dom, SelectPrimaryDivs(dom))))

FallbackCandidateText ==
    LET headings == SelectWodTitleHeadings(dom)
    IN  IF headings = <<>> THEN ""
        ELSE HtmlSnippetToMarkdown(
                 Str(SerializeNodes(NextUntil(dom, headings[1]), FALSE)))

\* C1: whenever extractWodDetails returns a record whose wodText is null,
\* its isRestDay is false.
C1_NullTextIsNotRestDay ==
    Returned => (result.wodText.null => ~result.isRestDay)

\* The call returned null for a page whose only content says "Rest Day"
C1_Witness ==
    /\ Returned
    /\ result.wodText.null
    /\ IndexOf(htmlContent, "<article><p>Rest Day</p></article>", 1) > 0

C3_LengthThreshold ==
    Returned =>
        /\ ~result.wodText.null => Len(result.wodText.str) > 20
        /\ (Len(PrimaryCandidateText) <= 20 /\ Len(FallbackCandidateText) <= 20)
               => result.wodText.null

\* Both strategies found text of exactly 20 characters; null was returned
C3_Witness ==
    /\ Returned
    /\ Len(PrimaryCandidateText) = 20
    /\ Len(FallbackCandidateText) = 20
    /\ result.wodText.null

\* 'rest', one whitespace character, 'day', in any letter case, somewhere in s
ContainsRestDayPhrase(s) ==
    \E i \in 1..Len(s) :
        /\ CharAt(s, i)     \in {"r", "R"}
        /\ CharAt(s, i + 1) \in {"e", "E"}
        /\ CharAt(s, i + 2) \in {"s", "S"}
        /\ CharAt(s, i + 3) \in {"t", "T"}
        /\ CharAt(s, i + 4) \in WhiteSpace
        /\ CharAt(s, i + 5) \in {"d", "D"}
        /\ CharAt(s, i + 6) \in {"a", "A"}
        /\ CharAt(s, i + 7) \in {"y", "Y"}

\* C4: isRestDay is true exactly when wodText is non-null and contains
\* 'rest', exactly one whitespace character and 'day', case-insensitively;
\* 'Rest Day' and 'REST DAY' count, 'rest  day' with two spaces does not.
C4_RestDayRule ==
    Returned =>
        /\ result.isRestDay <=>
               (~result.wodText.null /\ ContainsRestDayPhrase(result.wodText.str))
        /\ (~result.wodText.null /\ IndexOf(result.wodText.str, "Rest Day", 1) > 0)
               => result.isRestDay
        /\ (~result.wodText.null /\ IndexOf(result.wodText.str, "REST DAY", 1) > 0)
               => result.isRestDay
        /\ result.wodText = Str("Take a rest  day and recover.") => ~result.isRestDay

\* The text with two spaces between 'rest' and 'day' was returned
C4_Witness ==
    /\ Returned
    /\ result.wodText = Str("Take a rest  day and recover.")
    /\ ~result.isRestDay

\* C5: a call with the HTML of a remembered earlier call returns the same
\* wodText and isRestDay as that call did, whatever calls lie between them.
C5_SameInputSameOutput ==
    (Returned /\ memo.set /\ memo.html = htmlContent) => result = memo.result

\* The remembered rest-day page is extracted again after a call for another page
C5_Witness ==
    /\ Returned
    /\ memo.set
    /\ memo.between
    /\ memo.html = htmlContent
    /\ result.isRestDay

\* C6: no call raises; a page without locatable content comes back as
\* { wodText: null, isRestDay: false }.
C6_NeverRaises ==
    /\ pc # "threw"
    /\ (Returned /\ result.wodText.null) => result = NoResult

\* Input that is no HTML was taken and answered with the empty record
C6_Witness ==
    /\ Returned
    /\ htmlContent = "not html at all, just a line of text < 1"
    /\ result = NoResult

HasPrefixedElement ==
    \E k \in DOMAIN AllPaths(dom) :
        LET node == NodeAt(dom, AllPaths(dom)[k])
        IN  /\ IsTag(node)
            /\ ~node.attribs.class.null
            /\ StartsWithAt(node.attribs.class.str, "_workout-of-the-day-content", 1)

HasWodHeading ==
    \E k \in DOMAIN AllPaths(dom) :
        LET node == NodeAt(dom, AllPaths(dom)[k])
        IN  /\ IsTag(node)
            /\ node.tagName \in {"h1", "h2", "h3"}
            /\ ToLowerCase(Trim(TextOfNodes(node.children))) = "workout of the day"

\* C7: a document with no element whose class starts with the prefix and no
\* h1-h3 heading reading 'workout of the day' gives
\* { wodText: null, isRestDay: false }.
C7_NoMarkerNoContent ==
    (Returned /\ ~HasPrefixedElement /\ ~HasWodHeading) => result = NoResult

\* A page whose div carries the prefix as second class word, with no heading
C7_Witness ==
    /\ Returned
    /\ ~HasPrefixedElement
    /\ ~HasWodHeading
    /\ IndexOf(htmlContent, "<div class=\"wod _workout-of-the-day-content\"><article>", 1) > 0
    /\ result = NoResult

\* C8: the end-to-end document yields 'AMRAP 20:', two newlines,
\* '10 Burpees' (21 characters) and isRestDay false.
C8_EndToEnd ==
    (Returned /\ htmlContent = EndToEndHtml) =>
        /\ result = [wodText |-> Str("AMRAP 20:\n\n10 Burpees"), isRestDay |-> FALSE]
        /\ Len(result.wodText.str) = 21

C8_Witness == Returned /\ htmlContent = EndToEndHtml /\ ~result.wodText.null

\* The reference conversion: each node converted on its own, the results
\* concatenated in document order. Every element that is not p, br, strong,
\* b, em, i or a gives its children.
RECURSIVE ReferenceMarkdown(_)
ReferenceMarkdown(nodes) ==
    LET One(n) ==
            IF n.type = "text" THEN n.data
            ELSE IF n.type = "comment" THEN ""
            ELSE IF n.tagName = "p" THEN ReferenceMarkdown(n.children) \o "\n\n"
            ELSE IF n.tagName = "br" THEN "\n"
            ELSE IF n.tagName = "strong" \/ n.tagName = "b"
                 THEN "**" \o ReferenceMarkdown(n.children) \o "**"
            ELSE IF n.tagName = "em" \/ n.tagName = "i"
                 THEN "*" \o ReferenceMarkdown(n.children) \o "*"
            ELSE IF n.tagName = "a"
                 THEN "[" \o ReferenceMarkdown(n.children) \o "]("
                      \o (IF n.attribs.href.null THEN "" ELSE n.attribs.href.str) \o ")"
            ELSE ReferenceMarkdown(n.children)
    IN  IF nodes = <<>> THEN ""
        ELSE One(Head(nodes)) \o ReferenceMarkdown(Tail(nodes))

\* The same, with script and style elements giving nothing
RECURSIVE ReferenceMarkdownOfTags(_)
ReferenceMarkdownOfTags(nodes) ==
    LET One(n) ==
            IF n.type = "text" THEN n.data
            ELSE IF n.type = "comment" THEN ""
            ELSE IF n.tagName = "script" \/ n.tagName = "style" THEN ""
            ELSE IF n.tagName = "p" THEN ReferenceMarkdownOfTags(n.children) \o "\n\n"
            ELSE IF n.tagName = "br" THEN "\n"
            ELSE IF n.tagName = "strong" \/ n.tagName = "b"
                 THEN "**" \o ReferenceMarkdownOfTags(n.children) \o "**"
            ELSE IF n.tagName = "em" \/ n.tagName = "i"
                 THEN "*" \o ReferenceMarkdownOfTags(n.children) \o "*"
            ELSE IF n.tagName = "a"
                 THEN "[" \o ReferenceMarkdownOfTags(n.children) \o "]("
                      \o (IF n.attribs.href.null THEN "" ELSE n.attribs.href.str) \o ")"
            ELSE ReferenceMarkdownOfTags(n.children)
    IN  IF nodes = <<>> THEN ""
        ELSE One(Head(nodes)) \o ReferenceMarkdownOfTags(Tail(nodes))

TagFidelityHolds ==
    Trim(ConvertCheerioToMarkdown(ParseHtml(TagFidelityHtml))) = "Hello **world**\nNext line"

\* C9 as stated: convertCheerioToMarkdown equals the reference conversion on
\* the tree of every loaded document, any element other than p, br, strong,
\* b, em, i and a giving its children; and the sample paragraph converts,
\* trimmed, to 'Hello **world**', a newline, 'Next line'.
C9_AsStated ==
    pc # "idle" =>
        /\ ConvertCheerioToMarkdown(dom) = ReferenceMarkdown(dom)
        /\ TagFidelityHolds

\* C9, amended: convertCheerioToMarkdown equals the reference conversion in
\* which script and style elements give nothing, like comments; and the
\* sample paragraph converts, trimmed, to 'Hello **world**', a newline,
\* 'Next line'.
C9_ConversionRules ==
    pc # "idle" =>
        /\ ConvertCheerioToMarkdown(dom) = ReferenceMarkdownOfTags(dom)
        /\ TagFidelityHolds

\* The loaded tree holds a script element with text in it
C9_Witness ==
    /\ pc # "idle"
    /\ \E k \in DOMAIN AllPaths(dom) :
           /\ NodeAt(dom, AllPaths(dom)[k]).tagName = "script"
           /\ NodeAt(dom, AllPaths(dom)[k]).children # <<>>
    /\ ConvertCheerioToMarkdown(dom) # ReferenceMarkdown(dom)

\* ------------------------------------------------------------------------
\* generateWorkoutObject: the fallback object
\* ------------------------------------------------------------------------

\* The AI call threw, its response is not valid JSON, or the parsed value
\* fails WorkoutSchema
AiFailed ==
    \/ aiResponse.threw
    \/ ~WorkoutText(aiResponse).wellFormed
    \/ WorkoutSchemaParse(WorkoutText(aiResponse).value).threw

FellBack == agentPc = "resolved" /\ AiFailed

\* The text before the first line feed, without surrounding whitespace
TrimmedFirstLine(text) ==
    LET feeds == {i \in 1..Len(text) : CharAt(text, i) = "\n"}
    IN  Trim(IF feeds = {} THEN text ELSE SubSeq(text, 1, MinOf(feeds) - 1))

\* The words of the lower-cased text with every character other than
\* a-z, 0-9 and whitespace removed
SlugWords(text) == SplitWs(StripNonSlugChars(ToLowerCase(text)))

\* The first three of those words joined by hyphens
SlugOfText(text) ==
    LET words == SlugWords(text)
    IN  IF Len(words) = 0 THEN ""
        ELSE IF Len(words) = 1 THEN words[1]
        ELSE IF Len(words) = 2 THEN words[1] \o "-" \o words[2]
        ELSE words[1] \o "-" \o words[2] \o "-" \o words[3]

FixedFallbackFields ==
    /\ settled.workout["scheme"] = JStr("time")
    /\ settled.workout["scope"] = JStr("private")
    /\ settled.workout["roundsToScore"] = JNum(1)

Settled(op) == dbPc = "settled" /\ dbCall.op = op

\* The call rejected, handed no INSERT to D1 and left every table as it was
RejectedWithoutInsert ==
    /\ dbCall.outcome.settled = "rejected"
    /\ dbCall.outcome.inserts = 0
    /\ database = dbCall.before

\* C11: a linking operation inserts nothing when the row it refers to is
\* missing. addWorkoutToTrack rejects without any INSERT when the workout or
\* the track is absent, with 'Workout <id> does not exist' when the workout
\* is absent and with 'Programming track <id> does not exist' when the
\* workout exists but the track is absent; scheduleWorkoutForDate rejects
\* without any INSERT, with 'Track workout <id> does not exist', when the
\* track workout is absent. The messages are those of the calls whose
\* existence queries D1 answered without an error of its own.
C11_MissingRowInsertsNothing ==
    /\ Settled("addWorkoutToTrack") =>
         LET workoutAbsent == dbCall.workoutId \notin IdsOf(dbCall.before.workouts)
             trackAbsent == dbCall.trackId \notin dbCall.before.programming_track
         IN  /\ workoutAbsent \/ trackAbsent => RejectedWithoutInsert
             /\ workoutAbsent /\ dbCall.answers[1] # "throws" =>
                  dbCall.outcome.message =
                     "Workout " \o dbCall.workoutId \o " does not exist"
             /\ ~workoutAbsent /\ trackAbsent /\ dbCall.answers[1] = "row"
                  /\ dbCall.answers[2] # "throws" =>
                  dbCall.outcome.message =
                     "Programming track " \o dbCall.trackId \o " does not exist"
    /\ Settled("scheduleWorkoutForDate") =>
         LET trackWorkoutAbsent ==
                dbCall.trackWorkoutId \notin IdsOf(dbCall.before.track_workout)
         IN  /\ trackWorkoutAbsent => RejectedWithoutInsert
             /\ trackWorkoutAbsent /\ dbCall.answers[1] # "throws" =>
                  dbCall.outcome.message =
                     "Track workout " \o dbCall.trackWorkoutId \o " does not exist"

\* The workout is stored, the track is not: the second check rejects
C11_Witness ==
    /\ Settled("addWorkoutToTrack")
    /\ dbCall.workoutId \in IdsOf(dbCall.before.workouts)
    /\ dbCall.trackId = "nonexistent-track"
    /\ dbCall.answers = <<"row", "row", "ok">>
    /\ dbCall.outcome.message = "Programming track nonexistent-track does not exist"
    /\ database.track_workout = {}

FailedErrorTexts(errors) == Join(FailedErrors(errors), ", ")

SomeStatementFailed ==
    /\ Settled("executeTransaction")
    /\ ~dbCall.batchThrows
    /\ \E i \in 1..Len(dbCall.errors) : dbCall.errors[i] # ""

\* C14: when any statement of the batch reports success = false,
\* executeTransaction rejects with an error whose message is
\* 'Transaction failed: ' followed by the failed statements' error texts
\* joined by ', '.
C14_TransactionFailedMessage ==
    SomeStatementFailed =>
       /\ dbCall.outcome.settled = "rejected"
       /\ dbCall.outcome.message =
             "Transaction failed: " \o FailedErrorTexts(dbCall.errors)

\* The rows of a track and the largest of their day numbers
DaysOfTrack(db, trackId) ==
    {r.dayNumber : r \in {t \in db.track_workout : t.trackId = trackId}}

\* C15 as the claim words it: getNextDayNumberForTrack returns one more than
\* the largest dayNumber among the track's track_workout rows, and returns 1
\* when the track has no rows or the query yields no row.
C15_AsStated ==
    Settled("getNextDayNumberForTrack") /\ dbCall.outcome.settled = "resolved" =>
       LET days == DaysOfTrack(dbCall.before, dbCall.trackId)
       IN  dbCall.outcome.number =
              IF days = {} \/ dbCall.answers[1] = "null" THEN 1
              ELSE MaxOf(days) + 1

\* C15, amended: getNextDayNumberForTrack returns one more than the largest
\* dayNumber among the track's track_workout rows, and returns 1 when the
\* track has no rows, when the query yields no row, or when the largest
\* dayNumber is -1, so that one more than it is 0.
C15_NextDayNumber ==
    Settled("getNextDayNumberForTrack") /\ dbCall.outcome.settled = "resolved" =>
       LET days == DaysOfTrack(dbCall.before, dbCall.trackId)
       IN  /\ dbCall.outcome.number =
                 IF days = {} \/ dbCall.answers[1] = "null" THEN 1
                 ELSE IF MaxOf(days) = -1 THEN 1
                 ELSE MaxOf(days) + 1
           /\ database = dbCall.before

\* Two rows, the larger day number inserted first
C15_Witness ==
    /\ Settled("getNextDayNumberForTrack")
    /\ DaysOfTrack(dbCall.before, dbCall.trackId) = {-1, 3}
    /\ dbCall.answers[1] = "row"
    /\ dbCall.outcome.number = 4

\* ------------------------------------------------------------------------
\* The workflow
\* ------------------------------------------------------------------------

\* Lines 127, 131, 134 and 144: the calls of the step in the order of the text
StepOrder ==
    <<"insertWorkout", "getNextDayNumberForTrack", "addWorkoutToTrack",
      "scheduleWorkoutForDate">>

\* C13: in one invocation of the database-operations callback the calls of
\* the service are made in the order insertWorkout,
\* getNextDayNumberForTrack, addWorkoutToTrack, scheduleWorkoutForDate,
\* each only after every earlier one resolved; addWorkoutToTrack is given
\* the id insertWorkout resolved to and scheduleWorkoutForDate the id
\* addWorkoutToTrack resolved to.
C13_WritesInOrder ==
    LET n == Len(serviceCalls)
    IN  /\ n <= 4
        /\ \A i \in 1..n : serviceCalls[i].op = StepOrder[i]
        /\ \A i \in 1..(n - 1) : serviceCalls[i].settled = "resolved"
        /\ n >= 3 => serviceCalls[3].argument = serviceCalls[1].value
        /\ n >= 4 => serviceCalls[4].argument = serviceCalls[3].value
        /\ wfPc = "stepFailed" => n >= 1 /\ serviceCalls[n].settled = "rejected"

\* All three writes made, with a workout whose stored id is not the id of
\* the workout object
C13_Witness ==
    /\ Len(serviceCalls) = 4
    /\ serviceCalls[4].settled = "resolved"
    /\ serviceCalls[1].argument # serviceCalls[1].value
    /\ serviceCalls[3].argument = serviceCalls[1].value

\* C16: a run that scraped a workout and generated the workout object has
\* run the legacy analysis step and returns the workout object together
\* with a legacy analysis that is not null.
C16_LegacyAnalysisReturned ==
    (wfPc = "completed" /\ ~wfResult.workoutObject.null)
        => /\ "analyze-wod-with-ai" \in stepsRun
           /\ wfResult.aiAnalysis # "null"

\* The steps that work on a workout
WorkoutSteps == {"generate-workout-object", "database-operations"}

\* C17: the generate-workout-object and database-operations steps run only
\* in a run whose extraction gave isRestDay false and a wodText that is not
\* null; after an extraction that gave a rest day or a null wodText neither
\* step runs, the tables stay as they were when the run started, and the
\* run returns status 'completed' with workoutObject null and
\* databaseResults null.
C17_OutcomesKeptApart ==
    /\ WorkoutSteps \cap stepsRun # {}
           => ~wodDetails.isRestDay /\ ~wodDetails.wodText.null
    /\ ("extract-wod-details" \in stepsRun
            /\ (wodDetails.isRestDay \/ wodDetails.wodText.null))
           => /\ WorkoutSteps \cap stepsRun = {}
              /\ database = wfBefore
              /\ wfPc \in {"return", "completed"}
              /\ wfPc = "completed"
                     => /\ wfResult.status = "completed"
                        /\ wfResult.workoutObject.null
                        /\ wfResult.databaseResults.null

\* A run on a rest day has returned, after an earlier run stored a workout
C17_Witness ==
    /\ wfPc = "completed"
    /\ wodDetails.isRestDay
    /\ ~wodDetails.wodText.null
    /\ wfResult.workoutObject.null
    /\ database.workouts # {}

\* ------------------------------------------------------------------------
\* The document and the order of the strategies
\* ------------------------------------------------------------------------

\* C18: from the end of loading to the return of extractWodDetails the
\* document is the tree that loading the pre-cleaned page built: neither
\* the primary strategy nor the fallback strategy changes it, and the
\* fallback starts from the tree the primary started from.
C18_DocumentNotMutated ==
    pc \in {"primary", "fallback", "classify", "returned"}
        => dom = ParseHtml(PreClean(htmlContent))

\* The fallback strategy has appended the elements after the heading to its
\* wrapper and taken its text from them
C18_Witness ==
    /\ pc = "classify"
    /\ SelectWodTitleHeadings(dom) # <<>>
    /\ NextUntilPaths(dom, SelectWodTitleHeadings(dom)[1]) # {}
    /\ FallbackNeeded(PrimaryStrategy(dom))
    /\ Truthy(wodTextContent)

\* The positions of s inside the spans one replace call removes from s,
\* offset being the number of characters of s before the part looked at
RECURSIVE SpanPositions(_, _, _, _, _)
SpanPositions(s, open, close, boundary, offset) ==
    LET ls     == ToLowerCase(s)
        starts == {i \in 1..Len(s) :
                      /\ StartsWithAt(ls, open, i)
                      /\ boundary => CharAt(ls, i + Len(open)) \notin WordChars}
        i      == IF starts = {} THEN 0 ELSE MinOf(starts)
        j      == IF i = 0 THEN 0 ELSE IndexOf(ls, close, i + Len(open))
        end    == j + Len(close) - 1
    IN  IF i = 0 \/ j = 0 THEN {}
        ELSE ((offset + i)..(offset + end))
             \cup SpanPositions(SubSeq(s, end + 1, Len(s)), open, close, boundary,
                                offset + end)

\* The positions of the input inside a script span, a style span or a
\* comment
InsideSpans(s) ==
    SpanPositions(s, "<script", "</script>", TRUE, 0)
    \cup SpanPositions(s, "<style", "</style>", TRUE, 0)
    \cup SpanPositions(s, "<!--", "-->", FALSE, 0)

\* The runs of characters of s, from position k on, between the positions
\* in removed
RECURSIVE OutsideSegments(_, _, _)
OutsideSegments(s, k, removed) ==
    LET free  == {p \in k..Len(s) : p \notin removed}
        first == MinOf(free)
        later == {p \in removed : p > first}
        last  == IF later = {} THEN Len(s) ELSE MinOf(later) - 1
    IN  IF free = {} THEN <<>>
        ELSE <<SubSeq(s, first, last)>> \o OutsideSegments(s, last + 1, removed)

\* Every segment is found in t, whole, after the one before it
RECURSIVE SegmentsInOrder(_, _, _)
SegmentsInOrder(segments, t, from) ==
    IF segments = <<>> THEN TRUE
    ELSE LET at == IndexOf(t, Head(segments), from)
         IN  /\ at > 0
             /\ SegmentsInOrder(Tail(segments), t, at + Len(Head(segments)))

\* C19: the pre-cleaned string keeps, unchanged and in their order, all
\* characters of the input that lie outside every <script>...</script>
\* span, <style>...</style> span and <!-- ... --> comment of the input.
C19_OutsideSpansKept ==
    pc # "idle"
        => SegmentsInOrder(OutsideSegments(htmlContent, 1, InsideSpans(htmlContent)),
                           PreClean(htmlContent), 1)

\* C20: the fallback strategy is entered only from the primary strategy,
\* and exactly when the primary strategy gave no text longer than 20
\* characters; the text it leaves is its own text when that is longer than
\* 20 characters and null otherwise.
C20_FallbackOnlyAfterPrimaryFailed ==
    [][/\ pc' = "fallback" => pc = "primary"
       /\ pc = "primary"
              => ((pc' = "fallback") <=> ~(Len(PrimaryCandidateText) > 20))
       /\ pc = "fallback"
              => wodTextContent' = IF Len(FallbackCandidateText) > 20
                                   THEN Str(FallbackCandidateText)
                                   ELSE NullStr]_vars

\* The article had a text of at most 20 characters and the fallback found a
\* longer one
C20_Witness ==
    /\ pc = "classify"
    /\ Len(PrimaryCandidateText) > 0
    /\ Len(PrimaryCandidateText) <= 20
    /\ Len(FallbackCandidateText) > 20
    /\ wodTextContent = Str(FallbackCandidateText)

\* ------------------------------------------------------------------------
\* The candidate fragments of the two strategies
\* ------------------------------------------------------------------------

\* The elements whose class attribute starts with the prefix, in document
\* order
PrefixedElements ==
    SelectSeq(AllPaths(dom),
              LAMBDA p : /\ IsTag(NodeAt(dom, p))
                         /\ ~NodeAt(dom, p).attribs.class.null
                         /\ StartsWithAt(NodeAt(dom, p).attribs.class.str, ClassPrefix, 1))

\* The article descendants of the element at path, in document order
ArticlesBelow(path) ==
    SelectSeq(AllPaths(dom),
              LAMBDA p : /\ IsTag(NodeAt(dom, p))
                         /\ NodeAt(dom, p).tagName = "article"
                         /\ IsProperPrefix(path, p))

\* The text of the article of the first prefixed element, null when there
\* is no such element, when it has no article, or when the text has at most
\* 20 characters
FirstElementArticleText ==
    LET articles == IF PrefixedElements = <<>> THEN <<>>
                    ELSE ArticlesBelow(PrefixedElements[1])
        text     == HtmlSnippetToMarkdown(InnerHtml(dom, articles))
    IN  IF articles # <<>> /\ Len(text) > 20 THEN Str(text) ELSE NullStr

\* C21: the primary strategy takes its candidate from an article below the
\* first element whose class attribute starts with the prefix; when that
\* element has no article the primary strategy gives nothing, also if a
\* later prefixed element has one, and the text then is the fallback's.
C21_ArticleOfFirstElement ==
    pc \in {"fallback", "classify"}
        => IF FirstElementArticleText.null
           THEN pc = "fallback" \/ wodTextContent = FallbackStrategy(dom, NullStr)
           ELSE pc = "classify" /\ wodTextContent = FirstElementArticleText

\* The names the claim gives for a comments section
CommentsNames ==
    {"comments", "comments-area", "fyre", "comments-section", "post-comments"}

\* A sibling the claim ends the run at: a heading of level 1 to 3, or an
\* element that carries one of the names as its tag, its id or a class
StatedStop(node) ==
    /\ IsTag(node)
    /\ \/ node.tagName \in {"h1", "h2", "h3"}
       \/ node.tagName \in CommentsNames
       \/ \E name \in CommentsNames : HasId(node, name) \/ HasClass(node, name)

\* The simple selectors of the list given to nextUntil, "" standing for no
\* condition
StopSelectors ==
    { [tag |-> t, id |-> "", class |-> ""] : t \in {"h1", "h2", "h3", "hr"} }
    \cup { [tag |-> "div", id |-> "comments", class |-> ""],
           [tag |-> "section", id |-> "", class |-> "comments"],
           [tag |-> "div", id |-> "", class |-> "fyre"],
           [tag |-> "div", id |-> "", class |-> "comments-area"],
           [tag |-> "", id |-> "comments", class |-> ""],
           [tag |-> "", id |-> "", class |-> "comments-section"],
           [tag |-> "", id |-> "", class |-> "post-comments"] }

\* A sibling that matches one of the simple selectors
SelectorStop(node) ==
    /\ IsTag(node)
    /\ \E sel \in StopSelectors :
            /\ sel.tag # "" => node.tagName = sel.tag
            /\ sel.id # "" => HasId(node, sel.id)
            /\ sel.class # "" => HasClass(node, sel.class)

\* The run of siblings from position k on: as the claim states it, every
\* node up to the first stated stop; as amended, the elements up to the
\* first element a selector matches
RECURSIVE SiblingRun(_, _, _)
SiblingRun(siblings, k, stated) ==
    IF k > Len(siblings) THEN <<>>
    ELSE IF stated /\ StatedStop(siblings[k]) THEN <<>>
    ELSE IF ~stated /\ SelectorStop(siblings[k]) THEN <<>>
    ELSE (IF stated \/ IsTag(siblings[k]) THEN <<siblings[k]>> ELSE <<>>)
         \o SiblingRun(siblings, k + 1, stated)

\* The text the fallback gives when its candidate is that run after the
\* first 'workout of the day' heading
TextOfSiblingRun(stated) ==
    LET headings == SelectWodTitleHeadings(dom)
        heading  == headings[1]
        n        == Len(heading)
        run      == SiblingRun(ChildrenAt(dom, SubSeq(heading, 1, n - 1)),
                               heading[n] + 1, stated)
        text     == HtmlSnippetToMarkdown(Str(SerializeNodes(run, FALSE)))
    IN  IF headings # <<>> /\ Len(text) > 20 THEN Str(text) ELSE NullStr

FallbackRan == pc = "classify" /\ Len(PrimaryCandidateText) <= 20

\* C22 as stated: the candidate of the fallback is exactly the siblings
\* after the first heading reading 'workout of the day', up to the first
\* sibling that is an h1-h3 heading or a comments-section element.
C22_AsStated == FallbackRan => wodTextContent = TextOfSiblingRun(TRUE)

\* C22: the candidate of the fallback is the element siblings after the
\* first h1-h3 heading reading 'workout of the day', in document order, up
\* to but not including the first element sibling that matches h1, h2, h3,
\* hr, div#comments, section.comments, div.fyre, div.comments-area,
\* #comments, .comments-section or .post-comments.
C22_SiblingRun == FallbackRan => wodTextContent = TextOfSiblingRun(FALSE)

\* The fallback took its text from the siblings before a stop, and more
\* siblings follow the stop
C22_Witness ==
    /\ FallbackRan
    /\ Truthy(wodTextContent)
    /\ LET heading  == SelectWodTitleHeadings(dom)[1]
           siblings == ChildrenAt(dom, SubSeq(heading, 1, Len(heading) - 1))
       IN  \E k \in (heading[Len(heading)] + 2)..(Len(siblings) - 1) :
               SelectorStop(siblings[k])

\* ------------------------------------------------------------------------
\* The conversion of a fragment
\* ------------------------------------------------------------------------

\* The fragments the two strategies hand to htmlSnippetToMarkdown for the
\* loaded document, null when a strategy has none
PrimaryFragment == InnerHtml(dom, FindArticles(dom, SelectPrimaryDivs(dom)))

FallbackFragment ==
    LET headings == SelectWodTitleHeadings(dom)
    IN  IF headings = <<>> THEN NullStr
        ELSE Str(SerializeNodes(NextUntil(dom, headings[1]), FALSE))

\* The converted text of a fragment before post-processing
ConvertedText(fragment) ==
    IF ~Truthy(fragment) THEN ""
    ELSE ConvertCheerioToMarkdown(ParseHtml(fragment.str))

\* md[from..upto] without every newline that has two newlines right
\* before it
RECURSIVE WithoutThirdNewlines(_, _, _)
WithoutThirdNewlines(md, from, upto) ==
    IF from > upto THEN ""
    ELSE IF from = upto
    THEN (IF from > 2 /\ SubSeq(md, from - 2, from) = "\n\n\n" THEN ""
          ELSE CharAt(md, from))
    ELSE LET mid == (from + upto) \div 2
         IN  WithoutThirdNewlines(md, from, mid)
             \o WithoutThirdNewlines(md, mid + 1, upto)

\* text is s without the whitespace at its two ends
IsTrimOf(text, s) ==
    /\ text # "" => /\ CharAt(text, 1) \notin WhiteSpace
                    /\ CharAt(text, Len(text)) \notin WhiteSpace
    /\ \E a \in 1..(Len(s) + 1) :
           /\ a + Len(text) - 1 <= Len(s)
           /\ SubSeq(s, a, a + Len(text) - 1) = text
           /\ \A i \in 1..Len(s) :
                  (i < a \/ i >= a + Len(text)) => CharAt(s, i) \in WhiteSpace

PostProcessedAsClaimed(fragment) ==
    LET text == HtmlSnippetToMarkdown(fragment)
        md   == ConvertedText(fragment)
    IN  /\ IndexOf(text, "\n\n\n", 1) = 0
        /\ IsTrimOf(text, WithoutThirdNewlines(md, 1, Len(md)))

\* C23: the string htmlSnippetToMarkdown returns has no three newlines in a
\* row and no whitespace at its ends: it is the converted text with every
\* run of three or more newlines cut down to two, trimmed.
C23_CollapsedAndTrimmed ==
    pc \in {"fallback", "classify", "returned"}
        => /\ PostProcessedAsClaimed(PrimaryFragment)
           /\ PostProcessedAsClaimed(FallbackFragment)
           /\ Truthy(wodTextContent)
                  => /\ IndexOf(wodTextContent.str, "\n\n\n", 1) = 0
                     /\ IsTrimOf(wodTextContent.str, wodTextContent.str)

\* The article converted to a text with four newlines in a row inside it
\* and whitespace at its end, and the strategy kept the post-processed text
C23_Witness ==
    /\ pc = "classify"
    /\ IndexOf(Trim(ConvertedText(PrimaryFragment)), "\n\n\n\n", 1) > 0
    /\ CharAt(ConvertedText(PrimaryFragment), Len(ConvertedText(PrimaryFragment))) = "\n"
    /\ wodTextContent = Str(PrimaryCandidateText)
    /\ IndexOf(wodTextContent.str, "\n\n", 1) > 0

\* The texts of the text nodes below nodes, in document order: of all of
\* them, or of those only that have no ancestor of another type than 'tag'
RECURSIVE TextsOfTextNodes(_, _)
TextsOfTextNodes(nodes, all) ==
    IF nodes = <<>> THEN <<>>
    ELSE LET node == Head(nodes)
         IN  (IF node.type = "text"
              THEN (IF node.data = "" THEN <<>> ELSE <<node.data>>)
              ELSE IF node.type = "comment" THEN <<>>
              ELSE IF all \/ node.type = "tag"
              THEN TextsOfTextNodes(node.children, all)
              ELSE <<>>)
             \o TextsOfTextNodes(Tail(nodes), all)

TextsKept(fragment, all) ==
    Truthy(fragment)
        => SegmentsInOrder(TextsOfTextNodes(ParseHtml(fragment.str), all),
                           ConvertedText(fragment), 1)

Converted == pc \in {"fallback", "classify", "returned"}

\* C24 as stated: the text of every text node of a fragment, at any depth
\* and under any element, is in the converted string, and the texts are in
\* document order.
C24_AsStated ==
    Converted => TextsKept(PrimaryFragment, TRUE) /\ TextsKept(FallbackFragment, TRUE)

\* C24: the text of every text node of a fragment that is not below a node
\* of another type than 'tag' (a script or a style element) is in the
\* converted string, at any depth and under any tag, and the texts are in
\* document order.
C24_TextUnderTagsKept ==
    Converted => TextsKept(PrimaryFragment, FALSE) /\ TextsKept(FallbackFragment, FALSE)

\* An article with a text node two levels down, below an element the
\* switch has no case for
C24_Witness ==
    /\ pc = "classify"
    /\ Truthy(PrimaryFragment)
    /\ wodTextContent = Str(PrimaryCandidateText)
    /\ LET parsed == ParseHtml(PrimaryFragment.str)
       IN  \E k \in DOMAIN AllPaths(parsed) :
               LET path == AllPaths(parsed)[k]
               IN  /\ Len(path) >= 3
                   /\ NodeAt(parsed, path).type = "text"
                   /\ NodeAt(parsed, SubSeq(path, 1, 1)).tagName \notin
                          {"p", "br", "strong", "b", "em", "i", "a"}

\* ------------------------------------------------------------------------
\* The database-operations step: partial writes and re-execution
\* ------------------------------------------------------------------------

AlreadyExistsMessage(id) == "Workout with ID " \o id \o " already exists"

\* The messages a failing INSERT makes insertWorkout reject with
InsertErrorMessages ==
    {D1ErrorText, UniqueErrorText, "SQL execution failed: " \o UnsuccessfulErrorText}

\* The callback is about to run again after an invocation of this run that
\* stored the workout under the id of the workout object
ReExecution ==
    /\ wfPc = "insert"
    /\ attempt >= 2
    /\ workoutObject.fields["id"].s \in
           IdsOf(database.workouts) \ IdsOf(wfBefore.workouts)

\* addWorkoutToTrack or scheduleWorkoutForDate fails: nothing is undone
WritesStayStored ==
    (wfPc \in {"track", "schedule"} /\ wfPc' = "stepFailed")
        => /\ database' = database
           /\ serviceCalls[1].value \in IdsOf(database'.workouts)
           /\ wfPc = "schedule"
                  => serviceCalls[3].value \in IdsOf(database'.track_workout)

C26_ReferencesExist ==
    /\ \A row \in database.track_workout :
           /\ row.workoutId \in IdsOf(database.workouts)
           /\ row.trackId \in database.programming_track
    /\ \A row \in database.scheduled_workout_instance :
           row.trackWorkoutId \in IdsOf(database.track_workout)

\* A workout is linked and scheduled, and a later linking call for a row
\* that is missing was rejected
C26_Witness ==
    /\ dbPc = "settled"
    /\ dbCall.op \in {"addWorkoutToTrack", "scheduleWorkoutForDate"}
    /\ dbCall.outcome.settled = "rejected"
    /\ database.track_workout # {}
    /\ database.scheduled_workout_instance # {}

\* ------------------------------------------------------------------------
\* Two steps for one track
\* ------------------------------------------------------------------------

\* The track_workout row a step inserted
RowOfStep(s) ==
    CHOOSE row \in database.track_workout : row.id = stepLocals[s].trackWorkoutId

Linked(s) == stepPc[s] \in {"schedule", "done"}

\* C27: the day number a step inserts is the one its own query gave it,
\* whatever rows were inserted since, so two steps that both queried before
\* either inserted store two rows of the same track with the same day
\* number.
C27_DayNumberNotAtomic ==
    /\ \A s \in StepIds :
           Linked(s) => /\ RowOfStep(s).dayNumber = stepLocals[s].dayNumber
                        /\ RowOfStep(s).trackId = DefaultTrackId
    /\ \A s, t \in StepIds :
           (/\ s # t /\ Linked(s) /\ Linked(t)
            /\ stepLocals[s].dayNumber = stepLocals[t].dayNumber)
               => \E r1, r2 \in database.track_workout :
                      /\ r1 # r2
                      /\ r1.trackId = r2.trackId
                      /\ r1.dayNumber = r2.dayNumber

\* Both steps asked for the day number while the row of the other was not
\* stored, and both rows are stored now, with the same day number
C27_Witness ==
    /\ \A s \in StepIds : Linked(s)
    /\ \A s, t \in StepIds :
           s # t => /\ stepLocals[t].trackWorkoutId \notin stepLocals[s].rowsSeen
                    /\ RowOfStep(s) # RowOfStep(t)
                    /\ RowOfStep(s).trackId = RowOfStep(t).trackId
                    /\ RowOfStep(s).dayNumber = RowOfStep(t).dayNumber

\* ------------------------------------------------------------------------
\* From the extracted workout to the store
\* ------------------------------------------------------------------------

\* The run has extracted a workout: not a rest day, and a text
WorkoutExtracted ==
    /\ "extract-wod-details" \in stepsRun
    /\ ~wodDetails.isRestDay
    /\ Truthy(wodDetails.wodText)

\* C28: a run that extracted a workout has a workout object from the
\* generate step on, never null, and does not end without the
\* database-operations step; the workout insertWorkout stores is that
\* object, also when it is the fallback object of a failed AI call.
C28_WorkoutReachesStore ==
    /\ (WorkoutExtracted /\ wfPc # "generate") => ~workoutObject.null
    /\ (WorkoutExtracted /\ wfPc \notin {"generate", "insert"})
           => "database-operations" \in stepsRun
    /\ (wfPc \in {"dayNumber", "track", "schedule", "return", "completed"}
        /\ Len(serviceCalls) >= 1)
           => \E row \in database.workouts :
                  /\ row.id = serviceCalls[1].value
                  /\ row.name = workoutObject.fields["name"].s
                  /\ workoutObject.fields["id"].s # ""
                         => row.id = workoutObject.fields["id"].s

\* The AI call failed, the workout object is the fallback object made from
\* the text, and the run has stored it
C28_Witness ==
    /\ wfPc = "completed"
    /\ WorkoutExtracted
    /\ \E now \in Timestamps :
           workoutObject.fields = FallbackWorkout(wodDetails.wodText.str, now)
    /\ \E row \in database.workouts :
           /\ row.id = workoutObject.fields["id"].s
           /\ row.id \notin IdsOf(wfBefore.workouts)
    /\ ~dbResults.null

\* ------------------------------------------------------------------------
\* insertWorkout and the ids of the workouts table
\* ------------------------------------------------------------------------

\* insertWorkout was called with an id and its existence check reported a
\* stored workout
ReportedStored ==
    /\ Settled("insertWorkout")
    /\ ~NoWorkoutId(dbCall.workoutData)
    /\ dbCall.answers[1] = "row"
    /\ dbCall.workoutData.id \in IdsOf(dbCall.before.workouts)

FreshIdGenerated ==
    /\ loopPc = "check"
    /\ loopLocals.workoutId \notin IdsOf(database.workouts)

LoopStepsAsClaimed ==
    /\ loopPc = "generate" => loopPc' = "check"
    /\ loopPc = "check" /\ loopLocals'.report = "stored"
           => /\ loopPc' = "generate"
              /\ loopLocals.workoutId \in loopLocals'.repeated
    /\ loopPc = "check" /\ loopLocals'.report = "absent"
           => /\ loopPc' = "insert"
              /\ loopLocals'.workoutId = loopLocals.workoutId
              /\ loopLocals'.repeated = loopLocals.repeated
    /\ database' # database
           => /\ loopPc = "insert"
              /\ loopLocals.report = "absent"
              /\ loopLocals'.outcome.inserts = 1
              /\ \A row \in database'.workouts \ database.workouts :
                     row.id = loopLocals.workoutId
    /\ loopPc = "insert" => loopLocals.report = "absent"

====
